---------------------------- MODULE Spec2Model ----------------------------
(***************************************************************************)
(* Model of the Lantiq TAPI channel driver (src/channels/chan_lantiq.c):   *)
(* the per-port line state machine, the digit collector with its           *)
(* inter-digit timer, the event dispatcher, the call-control entry points  *)
(* and the RTP media bridge.                                               *)
(*                                                                         *)
(* Code that runs with the port-table lock (iflock) held is one atomic     *)
(* action.  Code that runs without it is split where another thread can    *)
(* interleave: the dispatcher between the '#' branch of                    *)
(* lantiq_dev_event_digit and lantiq_dial, and the scheduler thread        *)
(* between the statements of lantiq_event_dial_timeout.                    *)
(***************************************************************************)
EXTENDS Integers, Sequences, FiniteSets, TLC

(***************************************************************************)
(* Bounds of the model.                                                    *)
(***************************************************************************)
\* sizeof(dtmfbuf): the Asterisk headers set 80; scaled down so that the
\* buffer fills within the model.
AST_MAX_EXTENSION == 3
\* call legs (struct ast_channel) that exist at the same time
MaxLegs == 2
\* scheduler entries and stale handles that exist at the same time
MaxTimers == 1
\* packets one behaviour of the media write path hands to the hardware
MaxPackets == 2
\* events the hardware holds for one port at the same time
MaxQueued == 2
\* dial attempts counted in one digit-collection phase
MaxAttempts == 2

(***************************************************************************)
(* Program constants.                                                      *)
(***************************************************************************)
channels == 1
TAPI_TONE_LOCALE_NONE == 0
TAPI_TONE_LOCALE_BUSY_CODE == 27
TAPI_TONE_LOCALE_DIAL_CODE == 25
\* int rtp_timestamp: the largest value, and the 32-bit wrap below it
INT_MAX == 2147483647
\* uint16_t rtp_seqno: the number of values
UINT16_RANGE == 65536
RTP_HEADER_LEN == 12
RTP_BUFFER_LEN == 512
RTP_PCMU == 0
RTP_G723_63 == 4
RTP_PCMA == 8
RTP_G722 == 9
RTP_CN == 13
RTP_G729 == 18
RTP_G7221 == 100
RTP_G726 == 101
RTP_ILBC == 102
RTP_SLIN8 == 103
RTP_SLIN16 == 104
RTP_SIREN7 == 105
RTP_G723_53 == 106

\* enum channel_state
ONHOOK == "ONHOOK"
OFFHOOK == "OFFHOOK"
DIALING == "DIALING"
INCALL == "INCALL"
CALL_ENDED == "CALL_ENDED"
RINGING == "RINGING"
UNKNOWN == "UNKNOWN"
channel_states == {ONHOOK, OFFHOOK, DIALING, INCALL, CALL_ENDED, RINGING, UNKNOWN}

Ports == 0 .. (channels - 1)
Legs == 1 .. MaxLegs
TimerIds == 1 .. MaxTimers
\* a null struct ast_channel pointer, a null tech_pvt, the format 0
NULL == 0
NoPort == -1

\* the digits a DTMF or pulse event can carry in the model
DialDigits == {"1", "2"}
Digits == DialDigits \cup {"#"}

VARIABLES
    channel_state,   \* iflist[c].channel_state
    owner,           \* iflist[c].owner (a leg or NULL)
    dial_timer,      \* iflist[c].dial_timer (a scheduler id or 0)
    dtmfbuf,         \* iflist[c].dtmfbuf, the digits before the NUL
    dtmfbuf_len,     \* iflist[c].dtmfbuf_len
    codec,           \* iflist[c].codec
    rtp_payload,     \* iflist[c].rtp_payload
    ptime,           \* iflist[c].ptime
    rtp_seqno,       \* iflist[c].rtp_seqno (uint16_t)
    rtp_timestamp,   \* iflist[c].rtp_timestamp (32 bits)
    chan,            \* the call legs: struct ast_channel objects
    schedq,          \* entries queued in sched_thread: [id, port]
    hook,            \* the handset as the event stream last reported it
    mon_pc,          \* dispatcher thread: position in the handler it is running
    mon_port,        \* port of that handler
    sched_pc,        \* scheduler thread: position in lantiq_event_dial_timeout
    sched_port,      \* port of the running timer callback
    attempts,        \* history: the lantiq_dial runs since the last collected digit or hook event
    typed,           \* history: digit events handled since the port left ONHOOK
    jb_due,          \* history: the port left INCALL and its statistics were not read since
    wr,              \* ast_lantiq_write in progress (media bridge)
    ev,              \* the last operation: which, on what, from which state
    monitor_thread,  \* the static monitor_thread: NULL, the thread, or STOP
    lk,              \* who holds monlock, iflock and the lock of the leg in use
    th_pc,           \* position of the monitor, an engine and the unloading thread
    mon_i,           \* loop index of the monitor inside one wake (i, then c)
    revents,         \* descriptors poll reported: 0 the device, c + 1 port c
    wake,            \* history of the wake: ports tried, failed and served
    evq,             \* events the hardware has queued for each port (how many)
    cancel           \* a cancellation request for the monitor is pending

portvars == <<channel_state, owner, dial_timer, dtmfbuf, dtmfbuf_len, codec,
              rtp_payload, ptime>>
rtpvars == <<rtp_seqno, rtp_timestamp>>
linevars == <<channel_state, owner, dial_timer, dtmfbuf, dtmfbuf_len, codec,
              rtp_payload, ptime, rtp_seqno, rtp_timestamp, chan, schedq,
              hook, mon_pc, mon_port, sched_pc, sched_port,
              attempts, typed, jb_due, wr, ev>>
lifevars == <<monitor_thread, lk, th_pc, mon_i, revents, wake, evq, cancel>>
vars == <<linevars, lifevars>>


(***************************************************************************)
(* The state the operations work on, as one record, so that the C          *)
(* functions translate to operators from state to state and nest the way   *)
(* the calls nest.  calls is the list of calls the running operation has   *)
(* made so far (hardware ioctls and call-control functions), ret its       *)
(* return value, lock how many times the running thread holds iflock (a    *)
(* recursive mutex), unlocked the port fields it has written while not     *)
(* holding it.  held are the other locks the running thread holds (monlock *)
(* and the locks of legs), order the pairs <<h, w>> of a lock h it held    *)
(* when it made a blocking acquisition of another lock w.                  *)
(***************************************************************************)
Cur ==
    [channel_state |-> channel_state, owner |-> owner, dial_timer |-> dial_timer,
     dtmfbuf |-> dtmfbuf, dtmfbuf_len |-> dtmfbuf_len, codec |-> codec,
     rtp_payload |-> rtp_payload, ptime |-> ptime, chan |-> chan,
     schedq |-> schedq, calls |-> <<>>, ret |-> 0, lock |-> 0, unlocked |-> {},
     held |-> {}, order |-> {}]

Log(S, c) == [S EXCEPT !.calls = Append(@, c)]
Ret(S, r) == [S EXCEPT !.ret = r]
\* the calls of kind name that S has logged
Calls(S, name) == {i \in DOMAIN S.calls : S.calls[i][1] = name}

\* a lock that is not taken, to compare with
no_mutex_lock(S) == S

\* the locks, each <<kind, number>>: iflock, monlock and the lock of leg l
IFLOCK == <<"iflock", 0>>
MONLOCK == <<"monlock", 0>>
CHANLOCK(l) == <<"chan", l>>

\* the locks the running thread holds
Holds(S) == S.held \cup (IF S.lock > 0 THEN {IFLOCK} ELSE {})

\* ast_mutex_lock(&iflock) and ast_mutex_unlock(&iflock)
ast_mutex_lock(S) ==
    [S EXCEPT !.lock = @ + 1,
              !.order = IF S.lock = 0 THEN @ \cup {<<h, IFLOCK>> : h \in S.held} ELSE @]
ast_mutex_unlock(S) == [S EXCEPT !.lock = @ - 1]

\* ast_channel_lock(l): a blocking acquisition unless the thread holds the
\* lock already (it is recursive)
ast_channel_lock(S, l) ==
    IF CHANLOCK(l) \in S.held THEN S
    ELSE [S EXCEPT !.order = @ \cup {<<h, CHANLOCK(l)>> : h \in Holds(S)},
                   !.held = @ \cup {CHANLOCK(l)}]

\* ast_queue_frame, under ast_queue_control and ast_queue_hangup too: the
\* engine locks the leg, appends the frame (entry names it) and unlocks
ast_queue_frame(S, l, entry) ==
    [Log(ast_channel_lock(S, l), entry) EXCEPT !.held = S.held]

\* the thread that runs an operation: the dispatcher holds monlock while it
\* handles what poll reported; the engine calls the entry points of a leg
\* with the leg locked
OnDispatcher(S) == [S EXCEPT !.held = {MONLOCK}]
OnEngine(S, l) == [S EXCEPT !.held = {CHANLOCK(l)}]

\* an assignment to a field of iflist[c]: it is noted when the thread does
\* not hold iflock
Wrote(S, field) == IF S.lock = 0 THEN [S EXCEPT !.unlocked = @ \cup {field}] ELSE S
set_channel_state(S, c, cs) == Wrote([S EXCEPT !.channel_state[c] = cs], "channel_state")
set_owner(S, c, l) == Wrote([S EXCEPT !.owner[c] = l], "owner")

\* a struct ast_channel that is not allocated
FreeLeg ==
    [alive |-> FALSE, state |-> "DOWN", tech_pvt |-> NoPort, leaked |-> FALSE,
     aq |-> FALSE]
\* a leg of another channel driver: allocated, never a leg of a port
OtherLeg ==
    [alive |-> TRUE, state |-> "UP", tech_pvt |-> NoPort, leaked |-> FALSE,
     aq |-> FALSE]

\* iflist[c].context as lantiq_create_pvts formats it
per_channel_context == FALSE
context(c) == IF per_channel_context THEN <<"lantiq", c + 1>> ELSE <<"default">>

(***************************************************************************)
(* Formats and the encoder table of lantiq_conf_enc.                       *)
(***************************************************************************)
AST_FORMAT_NONE == "NONE"
ConfEncTable ==
    [G723_1    |-> [pt |-> RTP_G723_63, ptime |-> 30, enc |-> "G723_63"],
     G729A     |-> [pt |-> RTP_G729,    ptime |-> 10, enc |-> "G729"],
     ULAW      |-> [pt |-> RTP_PCMU,    ptime |-> 10, enc |-> "MLAW"],
     ALAW      |-> [pt |-> RTP_PCMA,    ptime |-> 10, enc |-> "ALAW"],
     G726      |-> [pt |-> RTP_G726,    ptime |-> 10, enc |-> "G726_32"],
     ILBC      |-> [pt |-> RTP_ILBC,    ptime |-> 30, enc |-> "ILBC_133"],
     SLINEAR   |-> [pt |-> RTP_SLIN8,   ptime |-> 10, enc |-> "LIN16_8"],
     SLINEAR16 |-> [pt |-> RTP_SLIN16,  ptime |-> 10, enc |-> "LIN16_16"],
     G722      |-> [pt |-> RTP_G722,    ptime |-> 20, enc |-> "G722_64"],
     SIREN7    |-> [pt |-> RTP_SIREN7,  ptime |-> 20, enc |-> "G7221_32"]]
SupportedFormats == DOMAIN ConfEncTable

\* lantiq_setup_rtp: the payload type registered with the hardware for each
\* encoder type, in both directions; the table is zeroed first, so an
\* encoder type the function does not name has payload type 0
rtpPTConf(enc) ==
    CASE enc = "G723_63"  -> RTP_G723_63
      [] enc = "G723_53"  -> RTP_G723_53
      [] enc = "G729"     -> RTP_G729
      [] enc = "MLAW"     -> RTP_PCMU
      [] enc = "ALAW"     -> RTP_PCMA
      [] enc = "G726_32"  -> RTP_G726
      [] enc = "ILBC_152" -> RTP_ILBC
      [] enc = "LIN16_8"  -> RTP_SLIN8
      [] enc = "LIN16_16" -> RTP_SLIN16
      [] enc = "G722_64"  -> RTP_G722
      [] enc = "G7221_32" -> RTP_G7221
      [] OTHER            -> 0

\* the formats whose payload types the source lists as standard
StandardFormats == {"G723_1", "G729A", "ULAW", "ALAW", "G722"}

\* lantiq_conf_enc: ret is -1 for a format the switch does not know; the
\* results of the three ioctls are logged by the code and otherwise ignored.
lantiq_conf_enc(S, c, formatid) ==
    IF formatid \in SupportedFormats
    THEN Ret(Log(Wrote(Wrote(Wrote([S EXCEPT !.rtp_payload[c] = ConfEncTable[formatid].pt,
                                             !.ptime[c] = ConfEncTable[formatid].ptime,
                                             !.codec[c] = formatid],
                                   "rtp_payload"), "ptime"), "codec"),
                 <<"enc_cfg", c, ConfEncTable[formatid].enc>>), 0)
    ELSE Ret(S, -1)

(***************************************************************************)
(* Hardware helpers: each logs the call it makes.                          *)
(***************************************************************************)
\* lantiq_play_tone: the ioctl result only sets the return value, which no
\* caller in the line state machine reads.
lantiq_play_tone(S, c, t) == Log(S, <<"tone", c, t>>)

lantiq_ring(S, c, r) == Log(S, <<"ring", c, r>>)

lantiq_jb_get_stats(S, c) == Log(S, <<"jb_get_stats", c>>)

\* a standby whose failure takes the line state back, to compare with
standby_or_unknown(S, c, fail) ==
    IF fail # 0 THEN Ret([S EXCEPT !.channel_state[c] = UNKNOWN], -1) ELSE Ret(S, 0)

\* lantiq_standby: fail is the first ioctl that fails (1 line feed, 2 encoder
\* stop, 3 decoder stop), 0 when none does; a failure skips the rest.
lantiq_standby(S, c, fail) ==
    LET S1 == Log(S, <<"line_feed_standby", c>>)
        S2 == Log(S1, <<"enc_stop", c>>)
        S3 == Log(S2, <<"dec_stop", c>>)
    IN  CASE fail = 1 -> Ret(S1, -1)
          [] fail = 2 -> Ret(S2, -1)
          [] fail = 3 -> Ret(S3, -1)
          [] OTHER    -> Ret(lantiq_play_tone(S3, c, TAPI_TONE_LOCALE_NONE), 0)

\* the buffer left as it is, to compare with
keep_dtmfbuf(S, c) == S

lantiq_reset_dtmfbuf(S, c) ==
    [S EXCEPT !.dtmfbuf[c] = <<>>, !.dtmfbuf_len[c] = 0]

(***************************************************************************)
(* The scheduler thread's queue.  An id is fresh when no queue entry       *)
(* and no port handle holds it: the real scheduler never hands out an id   *)
(* twice, and reusing one that nothing refers to cannot be observed.       *)
(***************************************************************************)
FreeTimerIds(S) ==
    {t \in TimerIds : /\ \A e \in S.schedq : e.id # t
                      /\ \A q \in Ports : S.dial_timer[q] # t}
NewTimerId(S) == CHOOSE t \in FreeTimerIds(S) : \A u \in FreeTimerIds(S) : t <= u

\* ast_sched_thread_del: removes the entry if it is still queued
ast_sched_thread_del(S, id) ==
    Log([S EXCEPT !.schedq = {e \in @ : e.id # id}], <<"sched_del", id>>)

\* ast_sched_thread_add for lantiq_event_dial_timeout with data = port c
ast_sched_thread_add(S, c) ==
    LET t == NewTimerId(S)
    IN  Ret(Log([S EXCEPT !.schedq = @ \cup {[id |-> t, port |-> c]}],
                <<"sched_add", c, t>>), t)

(***************************************************************************)
(* Call legs: what the driver uses of the call-control engine.             *)
(***************************************************************************)
FreeLegs(S) == {l \in Legs : ~S.chan[l].alive}
NewLeg(S) == CHOOSE l \in FreeLegs(S) : \A m \in FreeLegs(S) : l <= m

ast_queue_hangup(S, l) == ast_queue_frame(S, l, <<"queue_hangup", l>>)

ast_lantiq_hangup(S, l) ==
    LET c  == S.chan[l].tech_pvt
        S0 == ast_mutex_lock(S)
        S1 == IF S0.channel_state[c] \in {RINGING, ONHOOK}
              THEN set_channel_state(lantiq_ring(S0, c, 0), c, ONHOOK)
              ELSE lantiq_play_tone(set_channel_state(Log(S0, <<"hung_up", c>>),
                                                      c, CALL_ENDED),
                                    c, TAPI_TONE_LOCALE_BUSY_CODE)
        S2 == lantiq_jb_get_stats(S1, c)
        S3 == set_owner([S2 EXCEPT !.chan[l].state = "DOWN", !.chan[l].tech_pvt = NoPort],
                        c, NULL)
    IN  Ret(ast_mutex_unlock(S3), 0)

\* ast_hangup of the engine: the driver's hangup callback, then the leg is
\* released
ast_hangup(S, l) ==
    LET S1 == ast_lantiq_hangup(ast_channel_lock(Log(S, <<"ast_hangup", l>>), l), l)
    IN  [S1 EXCEPT !.chan[l] = FreeLeg, !.held = S.held]

\* lantiq_channel: ret is the new leg, or NULL.  alloc_ok is the outcome of
\* ast_channel_alloc.  A format lantiq_conf_enc rejects returns NULL after
\* the leg was made the owner; nothing releases that leg.
lantiq_channel(S, state, c, ext, format, alloc_ok) ==
    IF ~alloc_ok \/ FreeLegs(S) = {}
    THEN Ret(Log(S, <<"channel_alloc_failed", c>>), NULL)
    ELSE LET l  == NewLeg(S)
             S1 == set_owner(Log([S EXCEPT !.chan[l] = [alive |-> TRUE, state |-> state,
                                                        tech_pvt |-> c, leaked |-> FALSE,
                                                        aq |-> FALSE]],
                                 <<"channel_alloc", l, ext>>), c, l)
             S2 == IF format # AST_FORMAT_NONE THEN lantiq_conf_enc(S1, c, format)
                   ELSE Ret(S1, 0)
         IN  IF S2.ret < 0
             THEN Ret([S2 EXCEPT !.chan[l].leaked = TRUE], NULL)
             ELSE Ret(S2, l)


(***************************************************************************)
(* The line state machine.                                                 *)
(***************************************************************************)
lantiq_end_dialing(S, c) ==
    LET S1 == IF S.dial_timer[c] # 0
              THEN [ast_sched_thread_del(S, S.dial_timer[c]) EXCEPT !.dial_timer[c] = 0]
              ELSE S
        S2 == IF S1.owner[c] # NULL THEN ast_hangup(S1, S1.owner[c]) ELSE S1
    IN  Ret(lantiq_reset_dtmfbuf(S2, c), 0)

\* ending the call without reading the statistics, to compare with
end_call_without_stats(S, c) ==
    IF S.owner[c] # NULL THEN Ret(ast_queue_hangup(S, S.owner[c]), 0) ELSE Ret(S, 0)

lantiq_end_call(S, c) ==
    IF S.owner[c] # NULL
    THEN Ret(ast_queue_hangup(lantiq_jb_get_stats(S, c), S.owner[c]), 0)
    ELSE Ret(S, 0)

accept_call(S, c) ==
    IF S.owner[c] = NULL THEN Ret(S, 0)
    ELSE IF S.chan[S.owner[c]].state = "RINGING"
         THEN LET l  == S.owner[c]
                  S1 == lantiq_play_tone(S, c, TAPI_TONE_LOCALE_NONE)
                  S2 == ast_queue_frame([S1 EXCEPT !.chan[l].aq = TRUE], l,
                                        <<"queue_control_answer", l>>)
                  S3 == Log(set_channel_state(S2, c, INCALL), <<"call_start", c>>)
              IN  Ret(Log(S3, <<"call_answer", c>>), 0)
         ELSE Ret(Log(S, <<"unhandled_leg_state", c>>), 0)

\* a hook handler that does not look at what the line-feed ioctl returned,
\* to compare with
event_hook_unchecked(S, c, state, lf_ok, sb) ==
    Ret(ast_mutex_unlock(set_channel_state(ast_mutex_lock(S), c,
                                           IF state = 1 THEN ONHOOK ELSE OFFHOOK)), 0)

\* lantiq_dev_event_hook: state is 1 for on-hook; lf_ok is the outcome of the
\* line-feed activation ioctl, sb the outcome of lantiq_standby.
lantiq_dev_event_hook(S, c, state, lf_ok, sb) ==
    LET cs == S.channel_state[c]
        L  == ast_mutex_lock(S)
    IN  ast_mutex_unlock(
        IF state = 1
        THEN LET S1 == CASE cs = DIALING -> lantiq_end_dialing(L, c)
                         [] cs = INCALL  -> lantiq_end_call(L, c)
                         [] OTHER        -> Ret(L, -1)
                 S2 == set_channel_state(S1, c, ONHOOK)
             IN  Ret(Log(lantiq_standby(S2, c, sb), <<"led_off", c>>), S1.ret)
        ELSE IF ~lf_ok
             THEN Ret(Log(L, <<"line_feed_active_failed", c>>), -1)
             ELSE IF cs = RINGING
                  THEN Log(accept_call(Log(L, <<"line_feed_active", c>>), c),
                           <<"led_blink", c>>)
                  ELSE LET S1 == set_channel_state(Log(L, <<"line_feed_active", c>>),
                                                   c, OFFHOOK)
                       IN  Ret(Log(lantiq_play_tone(S1, c, TAPI_TONE_LOCALE_DIAL_CODE),
                                   <<"led_on", c>>), 0))

\* lantiq_dial.  match is the answer of ast_exists_extension, alloc_ok of
\* ast_channel_alloc, pbx_ok of ast_pbx_start.  A failed allocation leaves
\* through bailout, past lantiq_reset_dtmfbuf.
lantiq_dial(S, c, ctx, match, alloc_ok, pbx_ok) ==
    LET ext == S.dtmfbuf[c]
        S0  == Log(ast_mutex_lock(S), <<"exists_extension", ctx, ext>>)
    IN  ast_mutex_unlock(
        IF match
        THEN LET R == lantiq_channel(S0, "UP", c, ext, AST_FORMAT_NONE, alloc_ok)
             IN  IF R.ret = NULL THEN R
                 ELSE LET l  == R.ret
                          S1 == set_channel_state(
                                  [set_owner([R EXCEPT !.chan[l].tech_pvt = c], c, l)
                                      EXCEPT !.chan[l].state = "RING"], c, INCALL)
                          S2 == Log(Log(S1, <<"call_setup_start", c>>), <<"call_start", c>>)
                          S3 == Log(S2, <<"pbx_start", l, ext, ctx>>)
                          S4 == IF pbx_ok THEN S3 ELSE ast_hangup(S3, l)
                      IN  Ret(lantiq_reset_dtmfbuf(S4, c), 0)
        ELSE LET S1 == lantiq_play_tone(S0, c, TAPI_TONE_LOCALE_BUSY_CODE)
             IN  Ret(lantiq_reset_dtmfbuf(set_channel_state(S1, c, CALL_ENDED), c), 0))

\* a port that drops the digits of a call, to compare with
send_digit_dropped(S, c, digit) == Ret(S, -1)
lantiq_send_digit(S, c, digit) ==
    IF S.owner[c] # NULL
    THEN Ret(ast_queue_frame(S, S.owner[c], <<"queue_frame_dtmf", S.owner[c], digit>>), 0)
    ELSE Ret(S, -1)

\* the autodial timer of lantiq_dev_event_digit: a new timer when the handle
\* is 0, else AST_SCHED_REPLACE (delete the entry of the handle if it is
\* still queued, then add)
setup_autodial_timer(S, c) ==
    LET S1 == IF S.dial_timer[c] = 0 THEN S
              ELSE [ast_sched_thread_del(S, S.dial_timer[c]) EXCEPT !.dial_timer[c] = 0]
        S2 == ast_sched_thread_add(S1, c)
    IN  [S2 EXCEPT !.dial_timer[c] = S2.ret]

\* a collector that stores every digit, to compare with
event_digit_unbounded(S, c, digit) ==
    Ret([S EXCEPT !.dtmfbuf[c] = Append(@, digit), !.dtmfbuf_len[c] = @ + 1], 0)

\* lantiq_dev_event_digit up to its return or, for '#', up to the point
\* where it unlocks iflock to call lantiq_dial: ret is 1 there, else 0.
lantiq_dev_event_digit(S, c, digit) ==
    LET cs == S.channel_state[c]
        L  == ast_mutex_lock(S)
        S0 == IF cs = OFFHOOK
              THEN Log(lantiq_play_tone(set_channel_state(L, c, DIALING),
                                        c, TAPI_TONE_LOCALE_NONE), <<"led_blink", c>>)
              ELSE L
    IN  ast_mutex_unlock(
        CASE cs = INCALL -> Ret(lantiq_send_digit(L, c, digit), 0)
          [] cs \in {OFFHOOK, DIALING} ->
                IF digit = "#"
                THEN Ret(IF S0.dial_timer[c] # 0
                         THEN [ast_sched_thread_del(S0, S0.dial_timer[c])
                                  EXCEPT !.dial_timer[c] = 0]
                         ELSE S0, 1)
                ELSE IF S0.dtmfbuf_len[c] < AST_MAX_EXTENSION - 1
                     THEN Ret(setup_autodial_timer(
                                [S0 EXCEPT !.dtmfbuf[c] = Append(@, digit),
                                           !.dtmfbuf_len[c] = @ + 1], c), 0)
                     ELSE LET S1 == lantiq_end_dialing(S0, c)
                              S2 == lantiq_play_tone(S1, c, TAPI_TONE_LOCALE_BUSY_CODE)
                          IN  Ret(set_channel_state(S2, c, CALL_ENDED), 0)
          [] OTHER -> Ret(Log(L, <<"unhandled_state", c>>), 0))


(***************************************************************************)
(* Actions.  Commit writes the record back; an action names itself in ev,  *)
(* with the port's state and digit count before it ran, unless it returned *)
(* at once without touching anything (a failed read, a unit for a port     *)
(* without owner, a refused request).                                      *)
(***************************************************************************)
\* a leg lantiq_channel left behind after lantiq_conf_enc failed, once no
\* port owns it: no pointer to it is left, so its slot can be used again
Unreachable(S, l) == S.chan[l].leaked /\ \A c \in Ports : S.owner[c] # l

\* the operation that led to S called lantiq_jb_get_stats for port c
ReadStats(S, c) == \E i \in DOMAIN S.calls : S.calls[i] = <<"jb_get_stats", c>>

Commit(S) ==
    /\ jb_due' = [c \in Ports |->
                     IF ReadStats(S, c) THEN FALSE
                     ELSE IF channel_state[c] = INCALL /\ S.channel_state[c] # INCALL
                          THEN TRUE ELSE jb_due[c]]
    /\ channel_state' = S.channel_state
    /\ owner' = S.owner
    /\ dial_timer' = S.dial_timer
    /\ dtmfbuf' = S.dtmfbuf
    /\ dtmfbuf_len' = S.dtmfbuf_len
    /\ codec' = S.codec
    /\ rtp_payload' = S.rtp_payload
    /\ ptime' = S.ptime
    /\ chan' = [l \in Legs |-> IF Unreachable(S, l) THEN FreeLeg ELSE S.chan[l]]
    /\ schedq' = S.schedq

Event(op, c, arg, S) ==
    [op |-> op, port |-> c, arg |-> arg,
     pre |-> IF c \in Ports THEN channel_state[c] ELSE UNKNOWN,
     prelen |-> IF c \in Ports THEN dtmfbuf_len[c] ELSE 0,
     ret |-> S.ret]

NoScenario == [ok |-> FALSE, d |-> <<>>]

\* a port at rest: on-hook, no leg, no digits, no timer queued or running
IdlePort(c) ==
    /\ channel_state[c] = ONHOOK
    /\ owner[c] = NULL
    /\ dial_timer[c] = 0
    /\ dtmfbuf_len[c] = 0
    /\ \A e \in schedq : e.port # c
    /\ ~(sched_pc # "idle" /\ sched_port = c)
    /\ \A l \in Legs : chan[l].tech_pvt # c

\* what the ioctls of a hook event can return: <<lf_ok, sb>>; on-hook does
\* not activate the line feed, off-hook does not call lantiq_standby
HookOutcomes(state) ==
    IF state = 1 THEN {<<TRUE, sb>> : sb \in 0 .. 3}
    ELSE {<<lf_ok, 0>> : lf_ok \in BOOLEAN}

\* the dispatcher has fetched a hook event for port c
EventHook(c, state) ==
    /\ mon_pc = "idle"
    /\ hook[c] = (IF state = 1 THEN "off" ELSE "on")
    /\ \E o \in HookOutcomes(state) :
          LET lf_ok == o[1]
              sb == o[2]
              S == lantiq_dev_event_hook(OnDispatcher(Cur), c, state, lf_ok, sb)
          IN  /\ Commit(S)
              /\ ev' = Event(IF state = 1 THEN "hook_on" ELSE "hook_off", c,
                             IF ~lf_ok THEN "line_feed_failed"
                             ELSE IF sb # 0 THEN "standby_failed" ELSE "", S)
              /\ typed' = [typed EXCEPT ![c] =
                              IF state = 0 /\ IdlePort(c) /\ S.channel_state[c] = OFFHOOK
                              THEN [ok |-> TRUE, d |-> <<>>] ELSE NoScenario]
    /\ hook' = [hook EXCEPT ![c] = IF state = 1 THEN "on" ELSE "off"]
    /\ attempts' = [attempts EXCEPT ![c] = 0]
    /\ UNCHANGED <<lifevars, rtpvars, mon_pc, mon_port, sched_pc,
                   sched_port, wr>>

\* the model has a scheduler id left for the timer a buffered digit arms
TimerRoom(c, digit) ==
    \/ channel_state[c] \notin {OFFHOOK, DIALING}
    \/ digit = "#"
    \/ dtmfbuf_len[c] >= AST_MAX_EXTENSION - 1
    \/ dial_timer[c] # 0
    \/ FreeTimerIds(Cur) # {}

\* the dispatcher has fetched a digit event for port c
EventDigit(c, digit) ==
    /\ mon_pc = "idle"
    /\ hook[c] = "off"
    /\ TimerRoom(c, digit)
    /\ LET S == lantiq_dev_event_digit(OnDispatcher(Cur), c, digit)
           buffered == S.dtmfbuf_len[c] > dtmfbuf_len[c]
       IN  /\ Commit(S)
           /\ ev' = Event("digit", c, digit, S)
           /\ mon_pc' = IF S.ret = 1 THEN "dial" ELSE "idle"
           /\ mon_port' = IF S.ret = 1 THEN c ELSE NoPort
           /\ attempts' = [attempts EXCEPT ![c] = IF buffered \/ S.ret = 1 THEN 0 ELSE @]
           /\ typed' = [typed EXCEPT ![c] =
                           IF typed[c].ok /\ buffered
                           THEN [ok |-> TRUE, d |-> Append(typed[c].d, digit)]
                           ELSE IF typed[c].ok /\ S.ret = 1 THEN @ ELSE NoScenario]
    /\ UNCHANGED <<lifevars, rtpvars, hook, sched_pc, sched_port, wr>>

\* what a dial attempt can meet: <<match, alloc_ok, pbx_ok>>; the later
\* outcomes are not asked for when an earlier one fails
DialOutcomes ==
    {<<FALSE, TRUE, TRUE>>, <<TRUE, FALSE, TRUE>>, <<TRUE, TRUE, FALSE>>,
     <<TRUE, TRUE, TRUE>>}

\* the dispatcher, after the '#', runs lantiq_dial
MonDial ==
    /\ mon_pc = "dial"
    /\ \E o \in DialOutcomes :
          LET c == mon_port
              S == lantiq_dial(OnDispatcher(Cur), c, context(c), o[1], o[2], o[3])
          IN  /\ Commit(S)
              /\ ev' = Event("dial", c, "digit", S)
              /\ attempts' = [attempts EXCEPT ![c] = IF @ < MaxAttempts THEN @ + 1 ELSE @]
              /\ typed' = [typed EXCEPT ![c] = [@ EXCEPT !.ok = FALSE]]
    /\ mon_pc' = "idle"
    /\ mon_port' = NoPort
    /\ UNCHANGED <<lifevars, rtpvars, hook, sched_pc, sched_port, wr>>

(***************************************************************************)
(* Inbound media: lantiq_dev_data_handler, on the dispatcher thread.  It   *)
(* takes no lock, so the engine threads run between its reads of           *)
(* pvt->owner: the handler is three steps, the read() with the first test  *)
(* of the owner, the tests of the owner's state and of the payload type,   *)
(* and the delivery.                                                       *)
(***************************************************************************)
\* what read() can return on a media descriptor: an error, or a unit of 160
\* payload bytes
ReadResults == {0, RTP_HEADER_LEN + 160}

\* the payload-type field of a unit: the port's type, comfort noise, or
\* another codec's
PayloadTypes(c) == {rtp_payload[c], RTP_CN, RTP_G722}

\* read(), and if ((!pvt->owner) ...
DataRead(c) ==
    /\ mon_pc = "idle"
    /\ \E res \in ReadResults :
          /\ mon_pc' = IF res <= 0 \/ owner[c] = NULL THEN "idle" ELSE "data_state"
          /\ mon_port' = IF res <= 0 \/ owner[c] = NULL THEN NoPort ELSE c
          /\ ev' = IF res <= 0 \/ owner[c] = NULL THEN ev
                   ELSE Event("data", c, "", Ret(Cur, 0))
    /\ UNCHANGED <<lifevars, portvars, rtpvars, chan, schedq, hook, sched_pc, sched_port,
                   attempts, typed, wr, jb_due>>

\* what ... || (pvt->owner->_state != AST_STATE_UP) does when the owner was
\* cleared after the first test: the pointer is read again and the null
\* dereference ends the process, or the build kept the pointer and reads the
\* state of a released leg, which may compare either way
StaleOwnerOutcomes == {"crash", "discard", "deliver"}

\* ... || (pvt->owner->_state != AST_STATE_UP)), and the payload-type test
DataCheck ==
    /\ mon_pc = "data_state"
    /\ LET c == mon_port
       IN  \E o \in StaleOwnerOutcomes, pt \in PayloadTypes(c) :
              LET out == IF owner[c] = NULL THEN o
                         ELSE IF chan[owner[c]].state # "UP" THEN "discard"
                         ELSE IF pt # rtp_payload[c] THEN "discard"
                         ELSE "deliver"
              IN  /\ mon_pc' = CASE out = "crash" -> "crashed"
                                  [] out = "discard" -> "idle"
                                  [] OTHER -> "data_queue"
                  /\ mon_port' = IF out = "discard" THEN NoPort ELSE c
                  /\ ev' = Event("data_check", c, out, Ret(Cur, 0))
    /\ UNCHANGED <<lifevars, portvars, rtpvars, chan, schedq, hook, sched_pc, sched_port,
                   attempts, typed, wr, jb_due>>

\* ast_channel_trylock(l): it does not wait; locked is whether another
\* thread holds the leg's lock, ret is 0 when the lock was taken
ast_channel_trylock(S, l, locked) ==
    IF locked THEN Ret(S, 1) ELSE Ret([S EXCEPT !.held = @ \cup {CHANLOCK(l)}], 0)

\* a delivery that waits for the leg's lock, to compare with
data_deliver_blocking(S, c, locked) ==
    Ret(ast_queue_frame(S, S.owner[c], <<"queue_frame", S.owner[c]>>), 0)

\* if (!ast_channel_trylock(pvt->owner)) { ast_queue_frame(pvt->owner, &frame);
\* ast_channel_unlock(pvt->owner); } return 0;
lantiq_dev_data_deliver(S, c, locked) ==
    LET l == S.owner[c]
        T == ast_channel_trylock(S, l, locked)
    IN  IF T.ret = 0
        THEN Ret([ast_queue_frame(T, l, <<"queue_frame", l>>) EXCEPT !.held = S.held], 0)
        ELSE Ret(T, 0)

\* the delivery: pvt->owner is read again after the calls that built the
\* frame; locked is whether another thread holds the leg's lock
DataQueue ==
    /\ mon_pc = "data_queue"
    /\ LET c == mon_port
       IN  \E locked \in BOOLEAN :
              LET out == IF owner[c] = NULL THEN "crash"
                         ELSE IF Calls(lantiq_dev_data_deliver(OnDispatcher(Cur), c, locked),
                                       "queue_frame") = {}
                              THEN "discard" ELSE "queue_frame"
              IN  /\ mon_pc' = IF out = "crash" THEN "crashed" ELSE "idle"
                  /\ mon_port' = IF out = "crash" THEN c ELSE NoPort
                  /\ ev' = Event("data_queue", c, out, Ret(Cur, 0))
    /\ UNCHANGED <<lifevars, portvars, rtpvars, chan, schedq, hook, sched_pc, sched_port,
                   attempts, typed, wr, jb_due>>

\* a null dereference on the dispatcher thread ends the process, and so does
\* the restart the dispatcher asks for: no thread runs any more
Alive == mon_pc \notin {"crashed", "restarting"}

(***************************************************************************)
(* The scheduler thread: an entry comes due and lantiq_event_dial_timeout  *)
(* runs, statement by statement, without iflock until lantiq_dial.         *)
(***************************************************************************)
\* ast_sched_runq takes the due entry off the queue and calls the callback
TimerFire ==
    /\ Alive
    /\ sched_pc = "idle"
    /\ \E e \in schedq :
          /\ schedq' = schedq \ {e}
          /\ sched_port' = e.port
          /\ ev' = Event("timer_fire", e.port, "", Cur)
          /\ typed' = [typed EXCEPT ![e.port] = NoScenario]
    /\ sched_pc' = "clear"
    /\ UNCHANGED <<lifevars, portvars, rtpvars, chan, hook, mon_pc,
                   mon_port, attempts, wr, jb_due>>

\* pvt->dial_timer = 0
TimerClear ==
    /\ Alive
    /\ sched_pc = "clear"
    /\ dial_timer' = [dial_timer EXCEPT ![sched_port] = 0]
    /\ sched_pc' = "check"
    /\ ev' = Event("timer_clear", sched_port, "", Cur)
    /\ UNCHANGED <<lifevars, channel_state, owner, dtmfbuf, dtmfbuf_len, codec, rtp_payload,
                   ptime, rtpvars, chan, schedq, hook, mon_pc,
                   mon_port, sched_port, attempts, typed, wr, jb_due>>

\* if (! pvt->channel_state == ONHOOK): enum ONHOOK is 0, so the test is
\* (channel_state == 0 ? 1 : 0) == 0, true in every state but ONHOOK
dial_timeout_test(cs) == (IF cs = ONHOOK THEN 1 ELSE 0) = 0

TimerCheck ==
    /\ Alive
    /\ sched_pc = "check"
    /\ sched_pc' = IF dial_timeout_test(channel_state[sched_port]) THEN "dial" ELSE "idle"
    /\ sched_port' = IF dial_timeout_test(channel_state[sched_port]) THEN sched_port
                     ELSE NoPort
    /\ ev' = Event("timer_check", sched_port, "", Cur)
    /\ UNCHANGED <<lifevars, portvars, rtpvars, chan, schedq, hook, mon_pc,
                   mon_port, attempts, typed, wr, jb_due>>

TimerDial ==
    /\ Alive
    /\ sched_pc = "dial"
    /\ \E o \in DialOutcomes :
          LET c == sched_port
              S == lantiq_dial(Cur, c, context(c), o[1], o[2], o[3])
          IN  /\ Commit(S)
              /\ ev' = Event("dial", c, "timer", S)
              /\ attempts' = [attempts EXCEPT ![c] = IF @ < MaxAttempts THEN @ + 1 ELSE @]
    /\ sched_pc' = "idle"
    /\ sched_port' = NoPort
    /\ UNCHANGED <<lifevars, rtpvars, hook, mon_pc, mon_port, typed, wr>>


(***************************************************************************)
(* The call-control engine's entry points, each on an engine thread.       *)
(***************************************************************************)
RequestData == {"", "0", "1", "2"}
RequestFormats == {AST_FORMAT_NONE, "ALAW", "H263"}
atoi(str) == CASE str = "1" -> 1 [] str = "2" -> 2 [] OTHER -> 0

\* a port that is never in use, to compare with
never_in_use(cs) == FALSE

\* if (! pvt->channel_state == ONHOOK) in ast_lantiq_requester: as in
\* lantiq_event_dial_timeout, true in every state but ONHOOK
requester_in_use_test(cs) == (IF cs = ONHOOK THEN 1 ELSE 0) = 0

ast_lantiq_requester(S, data, format, alloc_ok) ==
    LET L == ast_mutex_lock(S)
    IN  ast_mutex_unlock(
        IF data = "" THEN Ret(Log(L, <<"cause_unacceptable">>), NULL)
        ELSE IF atoi(data) < 1 \/ atoi(data) > channels
             THEN Ret(Log(L, <<"cause_unacceptable">>), NULL)
             ELSE LET c == atoi(data) - 1
                  IN  IF requester_in_use_test(L.channel_state[c])
                      THEN Ret(Log(L, <<"in_use", c>>), NULL)
                      ELSE lantiq_channel(L, "DOWN", c, <<>>, format, alloc_ok))

ast_lantiq_call(S, l) ==
    LET c == S.chan[l].tech_pvt
        L == ast_mutex_lock(S)
    IN  ast_mutex_unlock(
        IF L.channel_state[c] = ONHOOK
        THEN Ret(ast_queue_frame([set_channel_state(lantiq_ring(L, c, 1), c, RINGING)
                                     EXCEPT !.chan[l].state = "RINGING"],
                                 l, <<"queue_control_ringing", l>>), 0)
        ELSE Ret(ast_queue_frame([L EXCEPT !.chan[l].state = "BUSY"],
                                 l, <<"queue_control_busy", l>>), -1))

\* ast_lantiq_answer; it takes no lock
ast_lantiq_answer(S, l, writeformat) ==
    LET c == S.chan[l].tech_pvt
        R == lantiq_conf_enc(S, c, writeformat)
    IN  IF R.ret # 0 THEN Ret(R, -1)
        ELSE Ret(Log(Wrote(R, "call_answer"), <<"call_answer", c>>), 0)

EngineLeg(l) == chan[l].alive /\ ~chan[l].leaked /\ chan[l].tech_pvt # NoPort

\* <<data, format, alloc_ok>> of a channel request: every destination
\* string, and for the valid ones every format and allocation outcome
Requests ==
    {<<data, AST_FORMAT_NONE, TRUE>> : data \in RequestData}
      \cup {<<data, format, alloc_ok>> :
               data \in {d \in RequestData : atoi(d) \in 1 .. channels},
               format \in RequestFormats, alloc_ok \in BOOLEAN}

Requester(data, format, alloc_ok) ==
    /\ Alive
    /\ LET S == ast_lantiq_requester(Cur, data, format, alloc_ok)
              c == atoi(data) - 1
              refused == S.chan = chan /\ S.owner = owner
          IN  /\ Commit(S)
              /\ ev' = IF refused THEN ev ELSE Event("request", c, "", S)
              /\ typed' = [q \in Ports |-> IF q = c /\ ~refused THEN NoScenario
                                           ELSE typed[q]]
    /\ UNCHANGED <<lifevars, rtpvars, hook, mon_pc, mon_port, sched_pc,
                   sched_port, attempts, wr>>

Call(l) ==
    /\ Alive
    /\ EngineLeg(l)
    /\ chan[l].state = "DOWN"
    /\ LET S == ast_lantiq_call(OnEngine(Cur, l), l)
       IN  /\ Commit(S)
           /\ ev' = Event("call", chan[l].tech_pvt, l, S)
    /\ typed' = [typed EXCEPT ![chan[l].tech_pvt] = NoScenario]
    /\ UNCHANGED <<lifevars, rtpvars, hook, mon_pc, mon_port, sched_pc,
                   sched_port, attempts, wr>>

\* the engine hangs the leg up: on its own, or after ast_queue_hangup
Hangup(l) ==
    /\ Alive
    /\ EngineLeg(l)
    /\ LET S == ast_hangup(OnEngine(Cur, l), l)
       IN  /\ Commit(S)
           /\ ev' = Event("hangup", chan[l].tech_pvt, l, S)
    /\ typed' = [typed EXCEPT ![chan[l].tech_pvt] = NoScenario]
    /\ UNCHANGED <<lifevars, rtpvars, hook, mon_pc, mon_port, sched_pc,
                   sched_port, attempts, wr>>

\* ast_answer on a leg the port dialed: the driver's callback, then the
\* engine marks the leg up whatever the callback returned
Answer(l, writeformat) ==
    /\ Alive
    /\ EngineLeg(l)
    /\ chan[l].state = "RING"
    /\ LET S == ast_lantiq_answer(OnEngine(Cur, l), l, writeformat)
       IN  /\ Commit([S EXCEPT !.chan[l].state = "UP"])
           /\ ev' = Event("answer", chan[l].tech_pvt, l, S)
    /\ typed' = [typed EXCEPT ![chan[l].tech_pvt] = NoScenario]
    /\ UNCHANGED <<lifevars, rtpvars, hook, mon_pc, mon_port, sched_pc,
                   sched_port, attempts, wr>>

\* the engine reads the answer the port queued and marks the leg up
EngineUp(l) ==
    /\ Alive
    /\ EngineLeg(l)
    /\ chan[l].aq
    /\ chan' = [chan EXCEPT ![l].aq = FALSE, ![l].state = "UP"]
    /\ ev' = Event("leg_up", chan[l].tech_pvt, l, Cur)
    /\ UNCHANGED <<lifevars, portvars, rtpvars, schedq, hook, mon_pc,
                   mon_port, sched_pc, sched_port, attempts, typed, wr, jb_due>>

(***************************************************************************)
(* The queries of the engine: the attributes of a leg's port and the       *)
(* device state of a port.                                                 *)
(***************************************************************************)
\* the names acf_channel_read knows, as strcasecmp compares them
AcfNames == {"csd", "jitter_stats", "jbbufsize", "jbunderflow", "jboverflow",
             "jbdelay", "jbinvalid", "start", "answer"}
\* the arguments a dialplan passes in the model
AcfArgs == {"csd", "jitter_stats", "jbDelay", "Answer", "", "codec"}
\* strcasecmp ignores the case of the letters
tolower(str) ==
    CASE str = "jbDelay" -> "jbdelay"
      [] str = "Answer" -> "answer"
      [] OTHER -> str

\* a query that takes every name, to compare with
acf_read_any_name(S, l, args) ==
    IF l = NULL THEN Ret(S, -1) ELSE Ret(Log(S, <<"snprintf", args>>), 0)

\* acf_channel_read on leg l (NULL: no channel); buf is not modelled, the
\* field it is formatted from is logged
acf_channel_read(S, l, args) ==
    IF l = NULL THEN Ret(S, -1)
    ELSE LET c == S.chan[l].tech_pvt
             L == ast_mutex_lock(S)
         IN  ast_mutex_unlock(
             IF tolower(args) = "jitter_stats"
             THEN Ret(Log(lantiq_jb_get_stats(L, c), <<"snprintf", "jitter_stats">>), 0)
             ELSE IF tolower(args) \in AcfNames
                  THEN Ret(Log(L, <<"snprintf", tolower(args)>>), 0)
                  ELSE Ret(L, -1))

\* enum ast_device_state, the values the driver returns
AST_DEVICE_UNKNOWN == "AST_DEVICE_UNKNOWN"
AST_DEVICE_NOT_INUSE == "AST_DEVICE_NOT_INUSE"
AST_DEVICE_INUSE == "AST_DEVICE_INUSE"
AST_DEVICE_INVALID == "AST_DEVICE_INVALID"
AST_DEVICE_RINGING == "AST_DEVICE_RINGING"

\* the switch of ast_lantiq_devicestate
devicestate_switch(cs) ==
    CASE cs = ONHOOK -> AST_DEVICE_NOT_INUSE
      [] cs \in {OFFHOOK, DIALING, INCALL, CALL_ENDED} -> AST_DEVICE_INUSE
      [] cs = RINGING -> AST_DEVICE_RINGING
      [] OTHER -> AST_DEVICE_UNKNOWN

\* ast_lantiq_devicestate: port is the number in data less 1, and the test
\* that follows lets 1 .. channels pass.  iflist has the entries
\* 0 .. channels - 1: the read of iflist[channels] is outside the array, and
\* beyond is what the bytes after it happen to hold.
ast_lantiq_devicestate(S, data, beyond) ==
    LET port == atoi(data) - 1
    IN  IF port < 1 \/ port > channels THEN Ret(S, AST_DEVICE_INVALID)
        ELSE LET R == Log(S, <<"read_iflist", port>>)
             IN  IF port \in Ports THEN Ret(R, devicestate_switch(R.channel_state[port]))
                 ELSE Ret(R, devicestate_switch(beyond))

\* acf_channel_read on the engine thread that executes leg l
AcfRead(l, args) ==
    /\ Alive
    /\ EngineLeg(l)
    /\ LET S == acf_channel_read(OnEngine(Cur, l), l, args)
       IN  /\ Commit(S)
           /\ ev' = Event("acf_read", chan[l].tech_pvt, "", S)
    /\ UNCHANGED <<lifevars, rtpvars, hook, mon_pc, mon_port, sched_pc, sched_port, attempts,
                   typed, wr>>

\* ast_lantiq_devicestate on an engine thread, whatever the number asked
\* for: it reads and returns
DeviceState ==
    /\ Alive
    /\ \A data \in RequestData, beyond \in channel_states :
          ast_lantiq_devicestate(Cur, data, beyond).ret \in
             {AST_DEVICE_UNKNOWN, AST_DEVICE_NOT_INUSE, AST_DEVICE_INUSE,
              AST_DEVICE_INVALID, AST_DEVICE_RINGING}
    /\ UNCHANGED vars

(***************************************************************************)
(* lantiq_dev_event_handler: what the dispatcher does with the event it    *)
(* fetches for port i.                                                     *)
(***************************************************************************)
\* IFX_TAPI_EVENT_*: the kinds the switch names, the sentinel, and two of
\* the kinds it does not name
InfoEventIds == {"COD_DEC_CHG", "TONE_GEN_END", "CID_TX_SEQ_END"}
UnknownEventIds == {"FAULT_LINE_OVERTEMP", "FAXMODEM_CED"}

\* the digit of a pulse event: 0xB stands for '0', else '0' + digit
pulse_digit(d) == CASE d = 11 -> "0" [] d = 1 -> "1" [] d = 2 -> "2" [] OTHER -> "?"

\* an unknown event that is passed over, to compare with
event_handler_lenient(S, i, fetch_ok, id, digit, lf_ok, sb) ==
    ast_mutex_unlock(ast_mutex_lock(S))

\* one iteration of the for loop of lantiq_dev_event_handler: fetch_ok is
\* the outcome of the IFX_TAPI_EVENT_GET ioctl, id the kind of the event,
\* digit what a digit event carries (the ascii of DTMF, the count of pulse),
\* lf_ok and sb the outcomes of a hook event's ioctls
lantiq_dev_event_handler(S, i, fetch_ok, id, digit, lf_ok, sb) ==
    LET L == ast_mutex_lock(S)
    IN  IF ~fetch_ok \/ id = "NONE" THEN ast_mutex_unlock(L)
        ELSE LET U == ast_mutex_unlock(L)
             IN  CASE id = "FXS_ONHOOK"  -> lantiq_dev_event_hook(U, i, 1, lf_ok, sb)
                   [] id = "FXS_OFFHOOK" -> lantiq_dev_event_hook(U, i, 0, lf_ok, sb)
                   [] id = "DTMF_DIGIT"  -> lantiq_dev_event_digit(U, i, digit)
                   [] id = "PULSE_DIGIT" -> lantiq_dev_event_digit(U, i, pulse_digit(digit))
                   [] id \in InfoEventIds -> U
                   [] OTHER -> Log(Log(Log(U, <<"log_error", "Unknown TAPI event", id>>),
                                       <<"sleep", 1>>),
                                   <<"cli_command", "core restart now">>)

\* what the fetch gives besides hook and digit events: <<fetch_ok, id>>
OtherEvents ==
    {<<FALSE, "NONE">>, <<TRUE, "NONE">>, <<TRUE, "TONE_GEN_END">>,
     <<TRUE, "FAULT_LINE_OVERTEMP">>}

\* the dispatcher has fetched, or failed to fetch, an event for port c that
\* is no hook and no digit event; the restart it asks for replaces the
\* process
EventOther(c, fetch_ok, id) ==
    /\ mon_pc = "idle"
    /\ LET S == lantiq_dev_event_handler(OnDispatcher(Cur), c, fetch_ok, id, "1", TRUE, 0)
           restart == Calls(S, "cli_command") # {}
       IN  /\ Commit(S)
           /\ mon_pc' = IF restart THEN "restarting" ELSE mon_pc
           /\ ev' = IF restart THEN Event("event", c, "restart", S) ELSE ev
    /\ UNCHANGED <<lifevars, rtpvars, hook, mon_port, sched_pc, sched_port, attempts, typed, wr>>

(***************************************************************************)
(* The line state machine with its threads.                                *)
(***************************************************************************)

NoEvent == [op |-> "init", port |-> NoPort, arg |-> "", pre |-> UNKNOWN, prelen |-> 0,
            ret |-> 0]

(***************************************************************************)
(* Outbound media: ast_lantiq_write.  The engine thread of a leg calls it  *)
(* with the leg's lock held, one frame at a time; the loop over the        *)
(* frame's chunks is one step per iteration, since the hardware write may  *)
(* block.  wr is the running call: head and tail the offsets of the        *)
(* pointers in the frame, length and samples the C locals, f the frame,    *)
(* n the packets written so far, sent the last packet given to write().    *)
(***************************************************************************)
NoPacket == [seqno |-> -1, timestamp |-> 0, len |-> 0, pt |-> -1]
NoFrame == [frametype |-> "NULL", codec |-> AST_FORMAT_NONE, datalen |-> 0,
            samples |-> 0, len |-> 0]
NoWrite == [pc |-> "idle", port |-> NoPort, head |-> 0, tail |-> 0, length |-> 0,
            samples |-> 0, f |-> NoFrame, n |-> 0, sent |-> NoPacket]

\* C division of ints, truncating toward zero
cdiv(a, b) ==
    IF (a >= 0) = (b > 0) THEN (IF a >= 0 THEN a ELSE -a) \div (IF b > 0 THEN b ELSE -b)
    ELSE -((IF a >= 0 THEN a ELSE -a) \div (IF b > 0 THEN b ELSE -b))

\* const int subframes = (ptime + frame->len - 1) / ptime
subframes(pt, len) == cdiv(pt + len - 1, pt)
\* const int subframes_rtp = (RTP_BUFFER_LEN - RTP_HEADER_LEN) * subframes / frame->datalen
subframes_rtp(sub, datalen) == cdiv((RTP_BUFFER_LEN - RTP_HEADER_LEN) * sub, datalen)
\* int length = subframes_rtp * frame->datalen / subframes, subframes not 0
default_length(sub, datalen) == cdiv(subframes_rtp(sub, datalen) * datalen, sub)
\* int samples = length * frame->samples / frame->datalen
chunk_samples(length, f) == cdiv(length * f.samples, f.datalen)

\* the counter as an int that does not wrap, to compare with
next_seqno_int(seqno) == seqno + 1

\* pvt->rtp_seqno++ on a uint16_t
next_seqno(seqno) == (seqno + 1) % UINT16_RANGE

\* halving for every 16 kHz codec, to compare with
timestamp_step_wideband(payload_type, samples) ==
    IF payload_type \in {RTP_G722, RTP_SLIN16, RTP_SIREN7} THEN cdiv(samples, 2)
    ELSE samples

\* (rtp_header->payload_type == RTP_G722) ? samples / 2 : samples
timestamp_step(payload_type, samples) ==
    IF payload_type = RTP_G722 THEN cdiv(samples, 2) ELSE samples

\* pvt->rtp_timestamp += step on an int: past INT_MAX the sum wraps by 2^32,
\* as the add instruction of every target does
add_timestamp(ts, step) ==
    IF step > 0 /\ ts > INT_MAX - step
    THEN (ts - INT_MAX - 1) + (step - INT_MAX - 1)
    ELSE ts + step

\* load_module: the port table zeroed (ast_calloc, lantiq_init_pvt), the
\* state of each port what lantiq_get_hookstatus read (UNKNOWN fails the load).
\* The engine has one leg to give to the driver; the others are in use by
\* other drivers.
InitLineWith(legs) ==
    /\ channel_state \in [Ports -> {ONHOOK, OFFHOOK}]
    /\ hook = [c \in Ports |-> IF channel_state[c] = ONHOOK THEN "on" ELSE "off"]
    /\ owner = [c \in Ports |-> NULL]
    /\ dial_timer = [c \in Ports |-> 0]
    /\ dtmfbuf = [c \in Ports |-> <<>>]
    /\ dtmfbuf_len = [c \in Ports |-> 0]
    /\ codec = [c \in Ports |-> AST_FORMAT_NONE]
    /\ rtp_payload = [c \in Ports |-> 0]
    /\ ptime = [c \in Ports |-> 0]
    /\ rtp_seqno = [c \in Ports |-> 0]
    /\ rtp_timestamp = [c \in Ports |-> 0]
    /\ chan = legs
    /\ schedq = {}
    /\ mon_pc = "idle"
    /\ mon_port = NoPort
    /\ sched_pc = "idle"
    /\ sched_port = NoPort
    /\ attempts = [c \in Ports |-> 0]
    /\ typed = [c \in Ports |-> NoScenario]
    /\ jb_due = [c \in Ports |-> FALSE]
    /\ wr = NoWrite
    /\ ev = NoEvent

\* the monitor as load_module leaves it: restart_monitor has started the
\* thread, which waits in poll; nobody holds a lock
\* dev_ctx.channels as the loop of the monitor sees it: the ports of Ports
\* carry the line state, the ports after them are at rest with no owner
MonitorChannels == 2
MonitorPorts == 0 .. (MonitorChannels - 1)
\* owed are the events each port had queued when the wake began and that
\* the wake has not fetched yet
NoWake ==
    [tried |-> {}, failed |-> {}, served |-> {}, kind |-> "none",
     owed |-> [c \in MonitorPorts |-> 0]]
MonitorAtRest(mt, pc) ==
    /\ monitor_thread = mt
    /\ lk = [monlock |-> "free", iflock |-> "free", chan |-> "free"]
    /\ th_pc = [monitor |-> pc, engine |-> "idle", unload |-> "idle"]
    /\ mon_i = 0
    /\ revents = {}
    /\ wake = NoWake
    /\ evq = [c \in MonitorPorts |-> 0]
    /\ cancel = FALSE

InitLine == InitLineWith([l \in Legs |-> IF l = 1 THEN FreeLeg ELSE OtherLeg])

Init == InitLine /\ MonitorAtRest("RUNNING", "poll")

Next ==
    \/ \E c \in Ports, state \in {0, 1} : EventHook(c, state)
    \/ \E c \in Ports, digit \in Digits : EventDigit(c, digit)
    \/ MonDial
    \/ \E c \in Ports : DataRead(c)
    \/ DataCheck
    \/ DataQueue
    \/ TimerFire
    \/ TimerClear
    \/ TimerCheck
    \/ TimerDial
    \/ \E r \in Requests : Requester(r[1], r[2], r[3])
    \/ \E l \in Legs : Call(l)
    \/ \E l \in Legs : Hangup(l)
    \/ \E l \in Legs, writeformat \in RequestFormats : Answer(l, writeformat)
    \/ \E l \in Legs : EngineUp(l)

Spec == Init /\ [][Next]_vars

\* The dispatcher's event handling and the engine's entry points with the
\* queries and the other event kinds.  The timer callback and the media
\* path, which none of them calls or waits for, are the part of Spec left
\* out here: a timer a digit arms stays queued.
NextQuery ==
    \/ \E c \in Ports, state \in {0, 1} : EventHook(c, state)
    \/ \E c \in Ports, digit \in Digits : EventDigit(c, digit)
    \/ MonDial
    \/ \E r \in Requests : Requester(r[1], r[2], r[3])
    \/ \E l \in Legs : Call(l)
    \/ \E l \in Legs : Hangup(l)
    \/ \E l \in Legs, writeformat \in RequestFormats : Answer(l, writeformat)
    \/ \E l \in Legs : EngineUp(l)
    \/ \E l \in Legs, args \in AcfArgs : AcfRead(l, args)
    \/ DeviceState
    \/ \E c \in Ports, e \in OtherEvents : EventOther(c, e[1], e[2])

SpecQuery == Init /\ [][NextQuery]_vars

\* The dispatcher's event handling and the engine's entry points with every
\* leg of the engine free for the driver, so that a port meets a second leg
\* while an earlier one is still about.  The timer callback and the media
\* path are left out as in SpecQuery.
NextLegs ==
    \/ \E c \in Ports, state \in {0, 1} : EventHook(c, state)
    \/ \E c \in Ports, digit \in Digits : EventDigit(c, digit)
    \/ MonDial
    \/ \E r \in Requests : Requester(r[1], r[2], r[3])
    \/ \E l \in Legs : Call(l)
    \/ \E l \in Legs : Hangup(l)
    \/ \E l \in Legs, writeformat \in RequestFormats : Answer(l, writeformat)
    \/ \E l \in Legs : EngineUp(l)

InitLegs == InitLineWith([l \in Legs |-> FreeLeg]) /\ MonitorAtRest("RUNNING", "poll")

SpecLegs == InitLegs /\ [][NextLegs]_vars

(***************************************************************************)
(* Properties of the line state machine (Spec).  A property of a handler   *)
(* is stated over every state in which the handler can run and every       *)
(* outcome its calls can have: the handler applied to the current state    *)
(* gives the state it leaves and the calls it makes.                       *)
(***************************************************************************)
\* the dispatcher can take a digit event of port c
DigitReady(c) == mon_pc = "idle" /\ hook[c] = "off"

\* a timer of port c is waiting in the scheduler's queue
TimerQueued(S, c) == \E e \in S.schedq : e.port = c

\* C4: a port's dial buffer never holds more than AST_MAX_EXTENSION - 1
\* digits, and a digit other than '#' that arrives in DIALING with the
\* buffer full aborts dialing: the state becomes CALL_ENDED, the busy tone
\* plays, the buffer is reset and no timer of the port is left pending.
C4_OverflowAbortsDialing ==
    \A c \in Ports :
       /\ dtmfbuf_len[c] <= AST_MAX_EXTENSION - 1
       /\ Len(dtmfbuf[c]) = dtmfbuf_len[c]
       /\ (DigitReady(c) /\ channel_state[c] = DIALING
              /\ dtmfbuf_len[c] = AST_MAX_EXTENSION - 1)
            => \A digit \in DialDigits :
                  LET S == lantiq_dev_event_digit(Cur, c, digit)
                  IN  /\ S.channel_state[c] = CALL_ENDED
                      /\ S.dtmfbuf[c] = <<>>
                      /\ S.dtmfbuf_len[c] = 0
                      /\ \E i \in Calls(S, "tone") :
                            S.calls[i] = <<"tone", c, TAPI_TONE_LOCALE_BUSY_CODE>>
                      /\ S.dial_timer[c] = 0
                      /\ ~TimerQueued(S, c)

\* C5: '#' arriving in OFFHOOK or DIALING with an empty buffer leads to a
\* dial attempt with the empty destination; when the dialplan has no match
\* the port is left in CALL_ENDED with the busy tone, an empty buffer, no
\* timer pending and no call leg created.
C5_EmptyDestinationDial ==
    \A c \in Ports :
       /\ (DigitReady(c) /\ channel_state[c] \in {OFFHOOK, DIALING}
              /\ dtmfbuf_len[c] = 0)
            => lantiq_dev_event_digit(Cur, c, "#").ret = 1
       /\ (mon_pc = "dial" /\ mon_port = c /\ dtmfbuf_len[c] = 0)
            => LET S == lantiq_dial(Cur, c, context(c), FALSE, TRUE, TRUE)
               IN  /\ S.calls[1] = <<"exists_extension", context(c), <<>>>>
                   /\ S.channel_state[c] = CALL_ENDED
                   /\ \E i \in Calls(S, "tone") :
                         S.calls[i] = <<"tone", c, TAPI_TONE_LOCALE_BUSY_CODE>>
                   /\ S.dtmfbuf[c] = <<>>
                   /\ S.dtmfbuf_len[c] = 0
                   /\ S.dial_timer[c] = 0
                   /\ ~TimerQueued(S, c)
                   /\ Calls(S, "channel_alloc") = {}
                   /\ S.chan = chan

\* C6: from a port at rest, off-hook, the digits of d and '#' (typed holds
\* d) bring the dispatcher to a dial whose destination is d, every digit
\* from the first and without the '#'; with a dialplan match, the leg
\* allocated and its execution started, the dial creates exactly one leg,
\* makes it the port's owner, starts execution exactly once at d in the
\* port's context, and leaves the buffer empty and no timer pending.
C6_DialsTypedDigits ==
    \A c \in Ports :
       (mon_pc = "dial" /\ mon_port = c /\ typed[c].ok /\ FreeLegs(Cur) # {})
         => /\ dtmfbuf[c] = typed[c].d
            /\ LET S == lantiq_dial(Cur, c, context(c), TRUE, TRUE, TRUE)
                   l == S.owner[c]
               IN  /\ Cardinality(Calls(S, "channel_alloc")) = 1
                   /\ l # NULL
                   /\ S.chan[l].alive
                   /\ S.chan[l].tech_pvt = c
                   /\ {m \in Legs : S.chan[m].alive} = {m \in Legs : chan[m].alive} \cup {l}
                   /\ Cardinality(Calls(S, "pbx_start")) = 1
                   /\ \A i \in Calls(S, "pbx_start") :
                         S.calls[i] = <<"pbx_start", l, typed[c].d, context(c)>>
                   /\ S.dtmfbuf[c] = <<>>
                   /\ S.dtmfbuf_len[c] = 0
                   /\ S.dial_timer[c] = 0
                   /\ ~TimerQueued(S, c)

\* off-hook, two digits and '#' from rest have been dialed: the leg is the
\* owner and the port is in the call
C6_Witness ==
    \E c \in Ports :
       /\ ev.op = "dial"
       /\ ev.arg = "digit"
       /\ ev.port = c
       /\ typed[c].d = <<"1", "2">>
       /\ channel_state[c] = INCALL
       /\ owner[c] # NULL
       /\ dtmfbuf_len[c] = 0

\* C7: one digit-collection phase gives at most one dial attempt, however
\* the timer callback interleaves with digit and hook events: once
\* lantiq_dial has run, no timer makes it run again before the port
\* collects a further digit ('#' included) or the hook changes.
C7_OneDialPerCollection ==
    \A c \in Ports : attempts[c] <= 1

\* C8: an on-hook event for a port in INCALL with an owner reads the
\* jitter-buffer statistics, asks the engine once to hang the owner up, and
\* leaves the port in ONHOOK; the hangup the engine then performs does not
\* ask again.
C8_OnHookInCall ==
    /\ \A c \in Ports :
          (mon_pc = "idle" /\ hook[c] = "off" /\ channel_state[c] = INCALL
             /\ owner[c] # NULL)
            => \A o \in HookOutcomes(1) :
                  LET S == lantiq_dev_event_hook(Cur, c, 1, o[1], o[2])
                  IN  /\ Calls(S, "jb_get_stats") # {}
                      /\ Cardinality(Calls(S, "queue_hangup")) = 1
                      /\ \A i \in Calls(S, "queue_hangup") :
                            S.calls[i] = <<"queue_hangup", owner[c]>>
                      /\ Calls(S, "ast_hangup") = {}
                      /\ S.channel_state[c] = ONHOOK
    /\ \A l \in Legs :
          EngineLeg(l) => Calls(ast_hangup(Cur, l), "queue_hangup") = {}

\* the handset went down in a call and the leg has not been hung up yet
C8_Witness ==
    \E c \in Ports :
       /\ ev.op = "hook_on"
       /\ ev.port = c
       /\ ev.pre = INCALL
       /\ channel_state[c] = ONHOOK
       /\ owner[c] # NULL
       /\ chan[owner[c]].alive

\* C9: a unit is discarded, no frame delivered, when the port has no owner
\* or its owner is not up: the handler comes to deliver a frame only for a
\* port whose owner is up.  (The unit it delivers had the port's payload
\* type when the two were compared.)
C9_DeliversOnlyToUpOwner ==
    mon_pc = "data_queue"
       => /\ owner[mon_port] # NULL
          /\ chan[owner[mon_port]].state = "UP"

DialReady(c) ==
    \/ mon_pc = "dial" /\ mon_port = c
    \/ Alive /\ sched_pc = "dial" /\ sched_port = c

\* C11: every dial attempt leaves the port's dial buffer empty: with a
\* match and the call started, without a match, with the start of
\* execution failing, and with the allocation of the leg failing.
C11_DialEmptiesBuffer ==
    \A c \in Ports :
       (DialReady(c) /\ FreeLegs(Cur) # {})
         => \A o \in DialOutcomes :
               LET S == lantiq_dial(Cur, c, context(c), o[1], o[2], o[3])
               IN  /\ S.dtmfbuf[c] = <<>>
                   /\ S.dtmfbuf_len[c] = 0

\* C12: the timer callback never comes to run lantiq_dial for a port that
\* is in ONHOOK, however an on-hook event falls between its test of the
\* state and the dial; so the timer leaves the state of such a port alone.
C12_NoTimerDialOnHook ==
    \A c \in Ports :
       (Alive /\ sched_pc = "dial" /\ sched_port = c) => channel_state[c] # ONHOOK

\* C13: a port has at most one timer in the scheduler's queue, and, seen
\* when no callback of the port is running, its handle dial_timer is
\* non-zero exactly when a timer of the port is queued.
C13_OneTimerPerPort ==
    \A c \in Ports :
       /\ Cardinality({e \in schedq : e.port = c}) <= 1
       /\ ~(sched_pc # "idle" /\ sched_port = c)
            => (dial_timer[c] # 0 <=> TimerQueued(Cur, c))

\* the operation that led to S held iflock at each of its assignments to
\* channel_state and owner, and released it as often as it took it
StateWritesLocked(S) ==
    /\ S.unlocked \cap {"channel_state", "owner"} = {}
    /\ S.lock = 0

\* the operations that take iflock
LockedOps == {"hook_on", "hook_off", "digit", "dial", "request", "call", "hangup"}

\* every handler, run from any state it can run in and with any outcome of
\* its calls, writes channel_state and owner under iflock
C14_HandlersHoldLock ==
    /\ \A c \in Ports, state \in {0, 1} :
          (mon_pc = "idle" /\ hook[c] = (IF state = 1 THEN "off" ELSE "on"))
            => \A o \in HookOutcomes(state) :
                  StateWritesLocked(lantiq_dev_event_hook(Cur, c, state, o[1], o[2]))
    /\ \A c \in Ports, digit \in Digits :
          (DigitReady(c) /\ TimerRoom(c, digit))
            => StateWritesLocked(lantiq_dev_event_digit(Cur, c, digit))
    /\ \A c \in Ports :
          DialReady(c)
            => \A o \in DialOutcomes :
                  StateWritesLocked(lantiq_dial(Cur, c, context(c), o[1], o[2], o[3]))
    /\ \A r \in Requests :
          Alive => StateWritesLocked(ast_lantiq_requester(Cur, r[1], r[2], r[3]))
    /\ \A l \in Legs :
          (Alive /\ EngineLeg(l))
            => /\ StateWritesLocked(ast_hangup(Cur, l))
               /\ chan[l].state = "DOWN" => StateWritesLocked(ast_lantiq_call(Cur, l))
               /\ chan[l].state = "RING"
                    => \A f \in RequestFormats :
                          StateWritesLocked(ast_lantiq_answer(Cur, l, f))

\* a step that changes the state or the owner of a port is a step of one of
\* the operations that take iflock
C14_OnlyLockedOpsWrite ==
    (channel_state' # channel_state \/ owner' # owner) => ev'.op \in LockedOps

C15_AnswerHoldsLock ==
    \A l \in Legs, f \in RequestFormats :
       (Alive /\ EngineLeg(l) /\ chan[l].state = "RING")
         => ast_lantiq_answer(Cur, l, f).unlocked = {}

\* C16: a port in ONHOOK, OFFHOOK or CALL_ENDED has no owner, and a port in
\* RINGING or INCALL has one (DIALING may have an inbound leg or none).
C16_OwnerIffInCallStates ==
    \A c \in Ports :
       /\ channel_state[c] \in {ONHOOK, OFFHOOK, CALL_ENDED} => owner[c] = NULL
       /\ channel_state[c] \in {RINGING, INCALL} => owner[c] # NULL

\* C17: the dial buffer always holds fewer than AST_MAX_EXTENSION - 1
\* digits.
C17_LenBelowDigitCapacity ==
    \A c \in Ports : dtmfbuf_len[c] < AST_MAX_EXTENSION - 1

\* C17, amended: the dial buffer always holds fewer digits than the buffer
\* has bytes, AST_MAX_EXTENSION, so that the digits and the NUL after them
\* fit; it can hold AST_MAX_EXTENSION - 1 digits.
C17_LenBelowBufferSize ==
    \A c \in Ports :
       /\ dtmfbuf_len[c] < AST_MAX_EXTENSION
       /\ Len(dtmfbuf[c]) + 1 <= AST_MAX_EXTENSION

\* a digit has filled the buffer
C17_Witness ==
    \E c \in Ports :
       /\ ev.op = "digit"
       /\ ev.port = c
       /\ ev.prelen = AST_MAX_EXTENSION - 2
       /\ dtmfbuf_len[c] = AST_MAX_EXTENSION - 1
       /\ channel_state[c] = DIALING

\* the operation that led to S left port c as it is now
PortUntouched(S, c) ==
    /\ S.channel_state[c] = channel_state[c]
    /\ S.owner[c] = owner[c]
    /\ S.dial_timer[c] = dial_timer[c]
    /\ S.dtmfbuf[c] = dtmfbuf[c]
    /\ S.dtmfbuf_len[c] = dtmfbuf_len[c]
    /\ S.codec[c] = codec[c]
    /\ S.rtp_payload[c] = rtp_payload[c]
    /\ S.ptime[c] = ptime[c]
    /\ S.schedq = schedq

\* C18: a channel request for a port that is not in ONHOOK returns no leg
\* and leaves the port and the legs as they are, and one for a port in
\* ONHOOK returns a leg when the leg can be allocated with a format the
\* encoder takes; ast_lantiq_call on a port in ONHOOK starts the ring and
\* moves it to RINGING, on a port in any other state it signals busy,
\* returns -1 and leaves the line state as it is.
C18_OriginationOnlyWhenIdle ==
    /\ \A r \in Requests :
          LET c == atoi(r[1]) - 1
              S == ast_lantiq_requester(Cur, r[1], r[2], r[3])
          IN  (Alive /\ c \in Ports)
                => IF channel_state[c] # ONHOOK
                   THEN /\ S.ret = NULL
                        /\ PortUntouched(S, c)
                        /\ S.chan = chan
                        /\ Calls(S, "channel_alloc") = {}
                   ELSE (r[3] /\ FreeLegs(Cur) # {}
                           /\ r[2] \in SupportedFormats \cup {AST_FORMAT_NONE})
                          => /\ S.ret # NULL
                             /\ S.owner[c] = S.ret
    /\ \A l \in Legs :
          (Alive /\ EngineLeg(l) /\ chan[l].state = "DOWN")
            => LET c == chan[l].tech_pvt
                   S == ast_lantiq_call(Cur, l)
               IN  IF channel_state[c] = ONHOOK
                   THEN /\ S.ret = 0
                        /\ S.channel_state[c] = RINGING
                        /\ \E i \in Calls(S, "ring") : S.calls[i] = <<"ring", c, 1>>
                        /\ Calls(S, "queue_control_busy") = {}
                   ELSE /\ S.ret = -1
                        /\ S.channel_state[c] = channel_state[c]
                        /\ Calls(S, "ring") = {}
                        /\ \E i \in Calls(S, "queue_control_busy") :
                              S.calls[i] = <<"queue_control_busy", l>>

\* a leg requested while the port was idle was called after the handset had
\* been lifted: busy, and the port still in OFFHOOK
C18_Witness ==
    \E c \in Ports :
       /\ ev.op = "call"
       /\ ev.port = c
       /\ ev.ret = -1
       /\ ev.pre = OFFHOOK
       /\ channel_state[c] = OFFHOOK

\* C19: a port in CALL_ENDED stays in CALL_ENDED in every step but that of
\* a hook event of the port, and that step takes it to ONHOOK.
C19_CallEndedUntilHook ==
    [][\A c \in Ports :
          channel_state[c] = CALL_ENDED
            => \/ channel_state'[c] = CALL_ENDED
               \/ /\ ev'.op \in {"hook_on", "hook_off"}
                  /\ ev'.port = c
                  /\ channel_state'[c] = ONHOOK]_vars

\* C20: a port that has left INCALL takes no new origination (the test of
\* ast_lantiq_requester and of ast_lantiq_call lets it pass) and starts no
\* dial attempt before lantiq_jb_get_stats has run for it.
C20_StatsBeforeReuse ==
    \A c \in Ports :
       jb_due[c]
         => /\ requester_in_use_test(channel_state[c])
            /\ ~DialReady(c)

\* C30: an on-hook event handled while the port is in OFFHOOK or DIALING
\* leaves the port in ONHOOK with no timer of the port pending, an empty
\* dial buffer, no owner, and no leg attached to the port any more.
C30_OnHookClearsDialing ==
    \A c \in Ports :
       (mon_pc = "idle" /\ hook[c] = "off" /\ channel_state[c] \in {OFFHOOK, DIALING})
         => \A o \in HookOutcomes(1) :
               LET S == lantiq_dev_event_hook(Cur, c, 1, o[1], o[2])
               IN  /\ S.channel_state[c] = ONHOOK
                   /\ S.dial_timer[c] = 0
                   /\ ~TimerQueued(S, c)
                   /\ S.dtmfbuf[c] = <<>>
                   /\ S.dtmfbuf_len[c] = 0
                   /\ S.owner[c] = NULL
                   /\ \A l \in Legs : S.chan[l].tech_pvt # c

LeafLevel(S) == \A p \in S.order : p[1] # IFLOCK

\* C26: iflock is leaf-level: no handler of the dispatcher, of the timer
\* thread or of an engine thread, run from any state it can run in and with
\* any outcome of its calls, makes a blocking acquisition of monlock or of
\* a leg's lock while it holds iflock (so that no cycle of waits with the
\* engine threads, which come in holding the leg's lock, can form).
C26_IflockLeafLevel ==
    /\ \A c \in Ports, state \in {0, 1} :
          (mon_pc = "idle" /\ hook[c] = (IF state = 1 THEN "off" ELSE "on"))
            => \A o \in HookOutcomes(state) :
                  LeafLevel(lantiq_dev_event_hook(OnDispatcher(Cur), c, state, o[1], o[2]))
    /\ \A c \in Ports, digit \in Digits :
          (DigitReady(c) /\ TimerRoom(c, digit))
            => LeafLevel(lantiq_dev_event_digit(OnDispatcher(Cur), c, digit))
    /\ \A c \in Ports, o \in DialOutcomes :
          /\ (mon_pc = "dial" /\ mon_port = c)
               => LeafLevel(lantiq_dial(OnDispatcher(Cur), c, context(c), o[1], o[2], o[3]))
          /\ (Alive /\ sched_pc = "dial" /\ sched_port = c)
               => LeafLevel(lantiq_dial(Cur, c, context(c), o[1], o[2], o[3]))
    /\ \A r \in Requests :
          Alive => LeafLevel(ast_lantiq_requester(Cur, r[1], r[2], r[3]))
    /\ \A l \in Legs :
          (Alive /\ EngineLeg(l))
            => /\ LeafLevel(ast_hangup(OnEngine(Cur, l), l))
               /\ chan[l].state = "DOWN" => LeafLevel(ast_lantiq_call(OnEngine(Cur, l), l))

\* C32: when the line-feed activation fails while an off-hook event is
\* handled, the hook handler returns -1 and leaves the line state, the
\* owner, the dial buffer and the timer of the port as they were; it
\* touches no leg and no scheduler entry, and makes no other call.
C32_LineFeedFailureLeavesPort ==
    \A c \in Ports :
       (mon_pc = "idle" /\ hook[c] = "on")
         => LET S == lantiq_dev_event_hook(OnDispatcher(Cur), c, 0, FALSE, 0)
            IN  /\ S.ret = -1
                /\ PortUntouched(S, c)
                /\ S.chan = chan
                /\ S.schedq = schedq
                /\ S.calls = <<<<"line_feed_active_failed", c>>>>

\* an off-hook event whose line-feed activation failed was handled for a
\* ringing port, which still rings
C32_Witness ==
    \E c \in Ports :
       /\ ev.op = "hook_off"
       /\ ev.port = c
       /\ ev.arg = "line_feed_failed"
       /\ ev.ret = -1
       /\ ev.pre = RINGING
       /\ channel_state[c] = RINGING
       /\ hook[c] = "off"

\* C34: for every format lantiq_conf_enc accepts, the payload type it
\* stores on the port is the one lantiq_setup_rtp registered with the
\* hardware for the encoder type it selects; the standard formats get a
\* payload type below 100 and the others one of 100 or more.
C34_PayloadTypeAsRegistered ==
    \A c \in Ports, f \in SupportedFormats \cup RequestFormats :
       LET S == lantiq_conf_enc(Cur, c, f)
       IN  S.ret = 0
             => /\ Calls(S, "enc_cfg") # {}
                /\ \A i \in Calls(S, "enc_cfg") :
                      S.rtp_payload[c] = rtpPTConf(S.calls[i][3])
                /\ (f \in StandardFormats) <=> (S.rtp_payload[c] < 100)

\* C36: a digit event for a port in INCALL is forwarded to the leg that
\* owns the port as one digit frame and changes no field of the port; a
\* digit event for a port in ONHOOK, RINGING, CALL_ENDED or UNKNOWN changes
\* no field of the port, arms no timer, buffers nothing and queues nothing.
C36_DigitOutsideDialing ==
    \A c \in Ports, digit \in Digits :
       mon_pc = "idle"
         => LET S == lantiq_dev_event_digit(OnDispatcher(Cur), c, digit)
            IN  /\ channel_state[c] = INCALL
                     => /\ PortUntouched(S, c)
                        /\ Cardinality(Calls(S, "queue_frame_dtmf")) = 1
                        /\ \A k \in Calls(S, "queue_frame_dtmf") :
                              /\ S.calls[k] = <<"queue_frame_dtmf", owner[c], digit>>
                              /\ chan[owner[c]].alive
                              /\ chan[owner[c]].tech_pvt = c
                /\ channel_state[c] \in {ONHOOK, RINGING, CALL_ENDED, UNKNOWN}
                     => /\ PortUntouched(S, c)
                        /\ S.chan = chan
                        /\ Calls(S, "queue_frame_dtmf") = {}

\* a digit arrived on a port in a call: the port is as it was, in the call
\* of a leg that is up
C36_Witness ==
    \E c \in Ports :
       /\ ev.op = "digit"
       /\ ev.port = c
       /\ ev.pre = INCALL
       /\ channel_state[c] = INCALL
       /\ owner[c] # NULL
       /\ chan[owner[c]].state = "UP"

\* C37: in every reachable state a port has a timer waiting in the
\* scheduler's queue, a dial-timer handle or a dial buffer that is not
\* empty only while its state is DIALING (no thread of the model holds
\* iflock between two steps).
C37_TimerOnlyWhileDialing ==
    \A c \in Ports :
       (TimerQueued(Cur, c) \/ dial_timer[c] # 0 \/ dtmfbuf_len[c] > 0)
         => channel_state[c] = DIALING

\* C39: when ast_lantiq_requester returns no leg, whatever the reason (no
\* port number or one out of range, port in use, no leg allocated, a
\* format the encoder does not take), the owner, the state and the codec
\* fields of every port are what they were before the request.
C39_FailedRequestLeavesPort ==
    \A r \in Requests :
       Alive
         => LET S == ast_lantiq_requester(Cur, r[1], r[2], r[3])
            IN  S.ret = NULL
                  => \A c \in Ports :
                        /\ S.owner[c] = owner[c]
                        /\ S.channel_state[c] = channel_state[c]
                        /\ S.codec[c] = codec[c]
                        /\ S.rtp_payload[c] = rtp_payload[c]
                        /\ S.ptime[c] = ptime[c]

\* C40: the inbound media path never reads the state of, and never
\* delivers a frame to, a leg whose hangup on the port has completed: when
\* lantiq_dev_data_handler has found an owner and goes on to read the
\* owner's state, or to queue the frame, the port still has its owner and
\* the leg is not released.
C40_InboundSkipsReleasedLeg ==
    mon_pc \in {"data_state", "data_queue"}
      => /\ owner[mon_port] # NULL
         /\ chan[owner[mon_port]].alive

(***************************************************************************)
(* Properties of the queries and of the other event kinds (SpecQuery).     *)
(***************************************************************************)
\* the operation that led to S left every port, the scheduler's queue and
\* the legs as they are, set no call timestamp and wrote nothing unlocked
NothingTouched(S) ==
    /\ \A c \in Ports : PortUntouched(S, c)
    /\ S.chan = chan
    /\ Calls(S, "call_setup_start") = {}
    /\ Calls(S, "call_start") = {}
    /\ Calls(S, "call_answer") = {}
    /\ S.unlocked = {}
    /\ S.lock = 0

\* C21: acf_channel_read, for every name, known or not, and every leg it
\* can be called on, leaves every port's state, owner, dial buffer, dial
\* timer and codec fields, the scheduler's queue and the legs as they are
\* and sets no call timestamp; for a name it does not know ("" and
\* "codec" here) it returns -1.
C21_QueryLeavesPort ==
    \A l \in Legs \cup {NULL}, args \in AcfArgs :
       (Alive /\ (l = NULL \/ EngineLeg(l)))
         => LET S == acf_channel_read(Cur, l, args)
            IN  /\ NothingTouched(S)
                /\ args \in {"", "codec"} => S.ret = -1

\* a query with an unknown name has failed on the leg of a port in a call
C21_Witness ==
    \E c \in Ports :
       /\ ev.op = "acf_read"
       /\ ev.port = c
       /\ ev.ret = -1
       /\ channel_state[c] = INCALL
       /\ owner[c] # NULL

\* C22: for every port number p in 1 .. channels, the numbers a channel
\* request takes, the device-state query returns what the state of port p
\* (iflist[p - 1]) gives: ONHOOK not in use; OFFHOOK, DIALING, INCALL and
\* CALL_ENDED in use; RINGING ringing; UNKNOWN unknown.  For every other
\* number it returns invalid and reads no entry of the port table.
C22_DeviceStateOfPort ==
    \A data \in RequestData, beyond \in channel_states :
       LET p == atoi(data)
           S == ast_lantiq_devicestate(Cur, data, beyond)
       IN  IF p \in 1 .. channels
           THEN S.ret = CASE channel_state[p - 1] = ONHOOK -> "AST_DEVICE_NOT_INUSE"
                          [] channel_state[p - 1] = RINGING -> "AST_DEVICE_RINGING"
                          [] channel_state[p - 1] = UNKNOWN -> "AST_DEVICE_UNKNOWN"
                          [] OTHER -> "AST_DEVICE_INUSE"
           ELSE /\ S.ret = "AST_DEVICE_INVALID"
                /\ Calls(S, "read_iflist") = {}

\* C23: an event of a kind the switch does not name makes the dispatcher
\* ask for the restart of the process ("core restart now", once) and
\* changes no port; a codec-change, tone-end or caller-id-end event, the
\* no-event sentinel and a failed fetch change no port and ask for nothing.
C23_UnknownEventRestarts ==
    \A c \in Ports, fetch_ok \in BOOLEAN,
       id \in {"NONE", "COD_DEC_CHG", "TONE_GEN_END", "CID_TX_SEQ_END",
               "FAULT_LINE_OVERTEMP", "FAXMODEM_CED"} :
       mon_pc = "idle"
         => LET S == lantiq_dev_event_handler(Cur, c, fetch_ok, id, "1", TRUE, 0)
                unknown == fetch_ok /\ id \in {"FAULT_LINE_OVERTEMP", "FAXMODEM_CED"}
            IN  /\ NothingTouched(S)
                /\ unknown => /\ Cardinality(Calls(S, "cli_command")) = 1
                               /\ \A k \in Calls(S, "cli_command") :
                                     S.calls[k] = <<"cli_command", "core restart now">>
                /\ ~unknown => Calls(S, "cli_command") = {}

\* an unknown event arrived while a port was collecting digits with its
\* timer armed: the restart is asked for and the port is as it was
C23_Witness ==
    \E c \in Ports :
       /\ ev.op = "event"
       /\ ev.arg = "restart"
       /\ ev.port = c
       /\ mon_pc = "restarting"
       /\ channel_state[c] = DIALING
       /\ dial_timer[c] # 0
       /\ TimerQueued(Cur, c)

(***************************************************************************)
(* The media write path on its own: a port in a call, its encoder set up   *)
(* for any of the formats, its counters where earlier calls left them      *)
(* (they are zeroed at load only), and the engine writing frames to it.    *)
(***************************************************************************)
DataLens == {0, 160, 640, 1000}
FrameLens == {0, 20, 60}
FrameSamples == {160, 320}

\* the frames the engine may write to a leg of port c: voice in the port's
\* format with every length, duration and sample count, voice in another
\* format, and a frame that is not voice
Frames(c) ==
    [frametype : {"VOICE"}, codec : {codec[c]}, datalen : DataLens,
     samples : FrameSamples, len : FrameLens]
      \cup {[frametype |-> "VOICE", codec |-> "H263", datalen |-> 160, samples |-> 160,
             len |-> 20],
            [frametype |-> "DTMF", codec |-> codec[c], datalen |-> 160, samples |-> 160,
             len |-> 20]}

\* int length = subframes_rtp * frame->datalen / subframes with subframes
\* 0 is undefined: the division traps (SIGFPE), or the build leaves
\* whatever value in length; 0 and a value over the buffer stand for these
DivZeroLengths == {0, 600}
DivZeroOutcomes == {<<"trap", 0>>} \cup {<<"value", v>> : v \in DivZeroLengths}

\* ast_lantiq_write up to the loop
WriteFrame(l, f) ==
    /\ wr.pc = "idle"
    /\ EngineLeg(l)
    /\ LET c == chan[l].tech_pvt
           sub == subframes(ptime[c], f.len)
           enter(length) ==
               [wr EXCEPT !.pc = "loop", !.port = c, !.f = f, !.head = 0,
                          !.tail = f.datalen, !.length = length,
                          !.samples = chunk_samples(length, f)]
       IN  /\ IF f.frametype # "VOICE" \/ f.codec # codec[c] \/ f.datalen = 0
              THEN wr' = wr
              ELSE IF sub = 0
                   THEN \E o \in DivZeroOutcomes :
                           wr' = IF o[1] = "trap"
                                 THEN [wr EXCEPT !.pc = "crashed", !.port = c, !.f = f]
                                 ELSE enter(o[2])
                   ELSE wr' = enter(default_length(sub, f.datalen))
           /\ ev' = Event("write", c, "", Ret(Cur, 0))
    /\ UNCHANGED <<lifevars, portvars, rtpvars, chan, schedq, hook, mon_pc, mon_port, sched_pc,
                   sched_port, attempts, typed, jb_due>>

WriteOutcomes == {"ok", "short", "error"}

\* one iteration of while (head < tail), and the test that follows it;
\* out is what write() did
WriteChunk(out) ==
    /\ wr.pc = "loop"
    /\ wr.n < MaxPackets
    /\ LET c == wr.port
           last == (wr.tail - wr.head) < (RTP_BUFFER_LEN - RTP_HEADER_LEN)
           length == IF last THEN wr.tail - wr.head ELSE wr.length
           samples == IF last THEN chunk_samples(length, wr.f) ELSE wr.samples
           head == wr.head + length
           packet == [seqno |-> rtp_seqno[c], timestamp |-> rtp_timestamp[c],
                      len |-> length, pt |-> rtp_payload[c]]
       IN  /\ rtp_seqno' = [rtp_seqno EXCEPT ![c] = next_seqno(@)]
           /\ rtp_timestamp' = [rtp_timestamp EXCEPT
                                   ![c] = add_timestamp(@, timestamp_step(rtp_payload[c],
                                                                          samples))]
           /\ wr' = [wr EXCEPT !.pc = IF out = "error" \/ ~(head < wr.tail)
                                      THEN "idle" ELSE "loop",
                               !.head = head, !.length = length, !.samples = samples,
                               !.n = @ + 1, !.sent = packet]
           /\ ev' = Event("write_chunk", c, out, Ret(Cur, IF out = "error" THEN -1 ELSE 0))
    /\ UNCHANGED <<lifevars, portvars, chan, schedq, hook, mon_pc, mon_port, sched_pc,
                   sched_port, attempts, typed, jb_due>>

\* port 0 in a call on leg 1, the other ports at rest
InitWriteLine ==
    /\ channel_state = [c \in Ports |-> IF c = 0 THEN INCALL ELSE ONHOOK]
    /\ hook = [c \in Ports |-> IF c = 0 THEN "off" ELSE "on"]
    /\ owner = [c \in Ports |-> IF c = 0 THEN 1 ELSE NULL]
    /\ dial_timer = [c \in Ports |-> 0]
    /\ dtmfbuf = [c \in Ports |-> <<>>]
    /\ dtmfbuf_len = [c \in Ports |-> 0]
    /\ \E format \in SupportedFormats :
          /\ codec = [c \in Ports |-> IF c = 0 THEN format ELSE AST_FORMAT_NONE]
          /\ rtp_payload = [c \in Ports |-> IF c = 0 THEN ConfEncTable[format].pt ELSE 0]
          /\ ptime = [c \in Ports |-> IF c = 0 THEN ConfEncTable[format].ptime ELSE 0]
    /\ \E seqno \in {0, UINT16_RANGE - 1}, timestamp \in {0, INT_MAX - 100} :
          /\ rtp_seqno = [c \in Ports |-> IF c = 0 THEN seqno ELSE 0]
          /\ rtp_timestamp = [c \in Ports |-> IF c = 0 THEN timestamp ELSE 0]
    /\ chan = [l \in Legs |-> IF l = 1
                              THEN [FreeLeg EXCEPT !.alive = TRUE, !.state = "UP",
                                                   !.tech_pvt = 0]
                              ELSE FreeLeg]
    /\ schedq = {}
    /\ mon_pc = "idle"
    /\ mon_port = NoPort
    /\ sched_pc = "idle"
    /\ sched_port = NoPort
    /\ attempts = [c \in Ports |-> 0]
    /\ typed = [c \in Ports |-> NoScenario]
    /\ jb_due = [c \in Ports |-> FALSE]
    /\ wr = NoWrite
    /\ ev = NoEvent

InitWrite == InitWriteLine /\ MonitorAtRest("RUNNING", "poll")

\* ast_lantiq_write takes and releases no lock: while it runs, and while
\* its write() blocks, its thread holds what the engine called it with
ast_lantiq_write_holds(l) == Holds(OnEngine(Cur, l))

NextWrite ==
    \/ \E l \in {k \in Legs : EngineLeg(k)} :
          \E f \in Frames(chan[l].tech_pvt) : WriteFrame(l, f)
    \/ \E out \in WriteOutcomes : WriteChunk(out)

SpecWrite == InitWrite /\ [][NextWrite]_vars

(***************************************************************************)
(* Properties of the media write path (SpecWrite).                         *)
(***************************************************************************)

\* C1: each packet handed to the hardware write carries the sequence number
\* of the port's previous packet plus 1 modulo 65536 (0 after 65535), from
\* chunk to chunk and from frame to frame, whatever the write returned.
C1_SeqnoSuccessor ==
    [][(wr'.n = wr.n + 1 /\ wr.sent # NoPacket)
          => wr'.sent.seqno = (wr.sent.seqno + 1) % 65536]_vars

\* a packet numbered 0 went out after the one numbered 65535, the write of
\* it short
C1_Witness ==
    /\ wr.n >= 2
    /\ wr.sent.seqno = 0
    /\ ev.op = "write_chunk"
    /\ ev.arg = "short"

\* C2: writing a packet advances the port's timestamp by the chunk's sample
\* count, chunk length * frame samples / frame datalen, and by half of it
\* when and only when the port's payload type is 9 (G722); the packet
\* carries the timestamp from before the advance.  The int wraps by 2^32.
C2_TimestampAdvance ==
    [][wr'.n = wr.n + 1
          => LET c == wr.port
                 count == (wr'.sent.len * wr.f.samples) \div wr.f.datalen
                 advance == IF rtp_payload[c] = 9 THEN count \div 2 ELSE count
             IN  /\ wr'.sent.timestamp = rtp_timestamp[c]
                 /\ rtp_timestamp'[c] =
                        IF rtp_timestamp[c] <= 2147483647 - advance
                        THEN rtp_timestamp[c] + advance
                        ELSE (rtp_timestamp[c] - 2147483647 - 1)
                                + (advance - 2147483647 - 1)]_vars

\* a G722 packet of 160 bytes from a frame of 160 bytes and 320 samples
\* advanced the timestamp by 160, and a SLIN16 one is told apart by the
\* payload type only
C2_Witness ==
    /\ wr.n >= 1
    /\ wr.sent.pt = RTP_G722
    /\ wr.sent.len = 160
    /\ wr.f.samples = 320
    /\ rtp_timestamp[wr.port] = wr.sent.timestamp + 160

\* C3: no packet written carries more than 500 payload bytes, for every
\* accepted voice frame whatever its duration, the packet time and its
\* data length.  A frame of duration 0 makes subframes 0 and the division
\* at line 789 undefined; with a length left over 500 and a frame of 500
\* bytes or more the packet (and the copy into buf) exceeds the bound.
C3_PayloadAtMost500 ==
    wr.sent.len <= 500

\* C28: a write in progress on the thread of leg l holds neither iflock
\* nor monlock, and the dispatcher can handle every hook and digit event of
\* every port without waiting for a lock that thread holds.
C28_WriteLeavesDispatcherFree ==
    \A l \in Legs :
       (wr.pc = "loop" /\ EngineLeg(l) /\ chan[l].tech_pvt = wr.port)
         => /\ IFLOCK \notin ast_lantiq_write_holds(l)
            /\ MONLOCK \notin ast_lantiq_write_holds(l)
            /\ \A c \in Ports, state \in {0, 1} :
                  (mon_pc = "idle" /\ hook[c] = (IF state = 1 THEN "off" ELSE "on"))
                    => \A o \in HookOutcomes(state) :
                          \A p \in lantiq_dev_event_hook(OnDispatcher(Cur), c, state,
                                                         o[1], o[2]).order :
                             p[2] \notin ast_lantiq_write_holds(l)
            /\ \A c \in Ports, digit \in Digits :
                  (mon_pc = "idle" /\ hook[c] = "off")
                    => \A p \in lantiq_dev_event_digit(OnDispatcher(Cur), c, digit).order :
                          p[2] \notin ast_lantiq_write_holds(l)

\* C35: for every accepted voice frame with datalen > 0 the loop of
\* ast_lantiq_write ends after finitely many writes, one write per chunk,
\* and the chunks are consecutive non-empty slices that cover the frame's
\* data exactly: after each write the packet written carries at least one
\* payload byte, the bytes of the frame before head and no others have been
\* handed to the hardware, head is within the frame, and the write of the
\* frame is over only when head has reached tail.
C35_ChunksCoverFrame ==
    ev.op = "write_chunk"
      => /\ wr.sent.len > 0
         /\ wr.head <= wr.tail
         /\ (wr.pc = "idle" => wr.head = wr.tail)

(***************************************************************************)
(* The dispatcher loop and its life cycle: lantiq_events_monitor,          *)
(* restart_monitor and unload_module, with one engine thread working on    *)
(* the leg of a port in a call.  A thread that is about to take a lock     *)
(* waits in the position before it until the lock is free.  The handlers   *)
(* are reduced to the locks they take and to what they return; what they   *)
(* do to a port is the subject of Spec, and the restart on an unknown      *)
(* event that of SpecQuery.                                                *)
(***************************************************************************)
\* fds[0] is the device, fds[c + 1] port c
PollFds == 0 .. MonitorChannels
\* what one iteration of lantiq_dev_event_handler finds for its port
FetchKinds == {"fail", "none", "info", "hook_on", "hook_off", "digit"}

\* the blocking acquisitions the handler of an event of that kind makes
\* for port c in the state the port is in
Footprint(c, kind) ==
    IF c \notin Ports THEN {}
    ELSE IF kind = "hook_on"
    THEN UNION {lantiq_dev_event_hook(OnDispatcher(Cur), c, 0, o[1], o[2]).order :
                   o \in HookOutcomes(0)}
    ELSE IF kind = "hook_off"
    THEN UNION {lantiq_dev_event_hook(OnDispatcher(Cur), c, 1, o[1], o[2]).order :
                   o \in HookOutcomes(1)}
    ELSE IF kind = "digit"
    THEN UNION {lantiq_dev_event_digit(OnDispatcher(Cur), c, d).order : d \in DialDigits}
    ELSE {}

\* the handler calls into the engine for the owner while it holds iflock
NeedsLeg(c, kind) ==
    \E p \in Footprint(c, kind) : p[1] = IFLOCK /\ p[2][1] = "chan"

\* a port has an owner whose lock an engine thread can hold
LegInUse == \E c \in Ports : owner[c] # NULL

\* a handler that reports a failed read to the loop
data_handler_reports(res) == IF res <= 0 THEN -1 ELSE 0
\* lantiq_dev_data_handler: the value it returns; a failed read is logged
\* and returns 0 like every other path
lantiq_dev_data_handler(res) == 0

\* an unload that goes on to monlock without releasing iflock
unload_keeps_iflock(locks) == locks
\* unload_module, line 1509: iflock released before monlock is taken
unload_unlock_iflock(locks) == [locks EXCEPT !.iflock = "free"]

\* restart_monitor: stays stopped when STOP; else takes monlock, wakes the
\* thread with SIGURG or creates it
restart_monitor(mt) == IF mt = "NULL" THEN "RUNNING" ELSE mt

Tried(w, kind, c) == [w EXCEPT !.tried = @ \cup {<<kind, c>>}]
Failed(w, kind, c) == [Tried(w, kind, c) EXCEPT !.failed = @ \cup {<<kind, c>>}]
Served(w, kind, c) == [Tried(w, kind, c) EXCEPT !.served = @ \cup {<<kind, c>>}]

\* the loop of lantiq_dev_event_handler goes to the next port, and after
\* the last port the monitor goes on to the loop over the data descriptors
NextEvent(pc, i) ==
    IF i + 1 < MonitorChannels
    THEN <<[pc EXCEPT !.monitor = "events"], i + 1>>
    ELSE <<[pc EXCEPT !.monitor = "data"], 0>>

\* the loop over the data descriptors goes to the next port, or leaves
\* (break) when the handler returned non-zero
NextData(pc, c, ret) ==
    IF ret = 0 /\ c + 1 < MonitorChannels
    THEN <<[pc EXCEPT !.monitor = "data"], c + 1>>
    ELSE <<[pc EXCEPT !.monitor = "unlock"], 0>>

\* load_module calls restart_monitor; the module loader runs it apart from
\* unload_module
RestartMonitor ==
    /\ th_pc.unload \in {"idle", "returned"}
    /\ monitor_thread # "STOP" => lk.monlock = "free"
    /\ monitor_thread' = restart_monitor(monitor_thread)
    /\ th_pc' = IF monitor_thread = "NULL" THEN [th_pc EXCEPT !.monitor = "poll"] ELSE th_pc
    /\ UNCHANGED <<linevars, evq, lk, mon_i, revents, wake, cancel>>

\* poll returned a positive count: some descriptors are readable (a timeout
\* or a signal makes it return <= 0 and the loop polls again); the device is
\* readable as long as it holds an event
MonPoll(ready) ==
    /\ th_pc.monitor = "poll"
    /\ ready # {}
    /\ (0 \in ready) <=> (\E c \in MonitorPorts : evq[c] > 0)
    /\ revents' = ready
    /\ th_pc' = [th_pc EXCEPT !.monitor = "monlock"]
    /\ UNCHANGED <<linevars, evq, monitor_thread, lk, mon_i, wake, cancel>>

\* ast_mutex_lock(&monlock), then the test of fds[0]
MonLock ==
    /\ th_pc.monitor = "monlock"
    /\ lk.monlock = "free"
    /\ lk' = [lk EXCEPT !.monlock = "monitor"]
    /\ th_pc' = [th_pc EXCEPT !.monitor = IF 0 \in revents THEN "events" ELSE "data"]
    /\ mon_i' = 0
    /\ wake' = [NoWake EXCEPT !.owed = evq]
    /\ UNCHANGED <<linevars, evq, monitor_thread, revents, cancel>>

\* the hardware queues an event for port c
HwEvent(c) ==
    /\ evq[c] < MaxQueued
    /\ evq' = [evq EXCEPT ![c] = @ + 1]
    /\ UNCHANGED <<linevars, monitor_thread, lk, th_pc, mon_i, revents, wake, cancel>>

\* IFX_TAPI_EVENT_GET took the first event of the port off the queue
Fetched(w, c) == [w EXCEPT !.owed[c] = IF @ > 0 THEN @ - 1 ELSE 0]

\* one iteration of lantiq_dev_event_handler up to the dispatch: iflock,
\* the fetch of one event of port i (none when nothing is queued), unlock
MonFetch(kind) ==
    /\ th_pc.monitor = "events"
    /\ lk.iflock = "free"
    /\ kind # "fail" => (kind = "none" <=> evq[mon_i] = 0)
    /\ evq' = IF kind \in {"fail", "none"} THEN evq ELSE [evq EXCEPT ![mon_i] = @ - 1]
    /\ IF kind \in {"hook_on", "hook_off", "digit"}
       THEN /\ th_pc' = [th_pc EXCEPT !.monitor = "dispatch"]
            /\ wake' = [Fetched(Tried(wake, "event", mon_i), mon_i) EXCEPT !.kind = kind]
            /\ mon_i' = mon_i
       ELSE /\ th_pc' = NextEvent(th_pc, mon_i)[1]
            /\ mon_i' = NextEvent(th_pc, mon_i)[2]
            /\ wake' = IF kind = "fail" THEN Failed(wake, "event", mon_i)
                       ELSE IF kind = "none" THEN Tried(wake, "event", mon_i)
                       ELSE Fetched(Tried(wake, "event", mon_i), mon_i)
    /\ UNCHANGED <<linevars, monitor_thread, lk, revents, cancel>>

\* lantiq_dev_event_hook or lantiq_dev_event_digit: iflock, and either the
\* whole handler, or the handler up to its call into the engine
MonDispatch ==
    /\ th_pc.monitor = "dispatch"
    /\ lk.iflock = "free"
    /\ IF NeedsLeg(mon_i, wake.kind)
       THEN /\ lk' = [lk EXCEPT !.iflock = "monitor"]
            /\ th_pc' = [th_pc EXCEPT !.monitor = "leg"]
            /\ UNCHANGED <<mon_i, wake>>
       ELSE /\ th_pc' = NextEvent(th_pc, mon_i)[1]
            /\ mon_i' = NextEvent(th_pc, mon_i)[2]
            /\ wake' = [Served(wake, "event", mon_i) EXCEPT !.kind = "none"]
            /\ UNCHANGED lk
    /\ UNCHANGED <<linevars, evq, monitor_thread, revents, cancel>>

\* the engine call of the handler got the lock of the leg; the handler
\* returns and releases iflock
MonLeg ==
    /\ th_pc.monitor = "leg"
    /\ lk.chan = "free"
    /\ lk' = [lk EXCEPT !.iflock = "free"]
    /\ th_pc' = NextEvent(th_pc, mon_i)[1]
    /\ mon_i' = NextEvent(th_pc, mon_i)[2]
    /\ wake' = [Served(wake, "event", mon_i) EXCEPT !.kind = "none"]
    /\ UNCHANGED <<linevars, evq, monitor_thread, revents, cancel>>

\* one iteration of the loop over the data descriptors
MonData(res) ==
    /\ th_pc.monitor = "data"
    /\ IF (mon_i + 1) \in revents
       THEN /\ th_pc' = NextData(th_pc, mon_i, lantiq_dev_data_handler(res))[1]
            /\ mon_i' = NextData(th_pc, mon_i, lantiq_dev_data_handler(res))[2]
            /\ wake' = IF res <= 0 THEN Failed(wake, "data", mon_i)
                       ELSE Served(wake, "data", mon_i)
       ELSE /\ res = 0
            /\ th_pc' = NextData(th_pc, mon_i, 0)[1]
            /\ mon_i' = NextData(th_pc, mon_i, 0)[2]
            /\ UNCHANGED wake
    /\ UNCHANGED <<linevars, evq, monitor_thread, lk, revents, cancel>>

\* ast_mutex_unlock(&monlock), back to poll
MonUnlock ==
    /\ th_pc.monitor = "unlock"
    /\ lk' = [lk EXCEPT !.monlock = "free"]
    /\ th_pc' = [th_pc EXCEPT !.monitor = "poll"]
    /\ revents' = {}
    /\ wake' = NoWake
    /\ UNCHANGED <<linevars, evq, monitor_thread, mon_i, cancel>>

\* the cancellation is acted upon (the type is asynchronous: wherever the
\* thread is); the locks the thread holds stay held
MonCancelled ==
    /\ cancel
    /\ th_pc.monitor \notin {"none", "dead"}
    /\ cancel' = FALSE
    /\ th_pc' = [th_pc EXCEPT !.monitor = "dead"]
    /\ UNCHANGED <<linevars, evq, monitor_thread, lk, mon_i, revents, wake>>

\* the engine locks the leg and calls an entry point of lantiq_tech: the
\* write, which takes no lock, or call, hangup or a channel function,
\* which start with ast_mutex_lock(&iflock)
EngineEnter(op) ==
    /\ th_pc.engine = "idle"
    /\ LegInUse
    /\ lk.chan = "free"
    /\ lk' = [lk EXCEPT !.chan = "engine"]
    /\ th_pc' = [th_pc EXCEPT !.engine = op]
    /\ UNCHANGED <<linevars, evq, monitor_thread, mon_i, revents, wake, cancel>>

\* the entry point got iflock, did its work, released it and returned; the
\* engine unlocks the leg
EngineIflock ==
    /\ th_pc.engine = "iflock"
    /\ lk.iflock = "free"
    /\ lk' = [lk EXCEPT !.chan = "free"]
    /\ th_pc' = [th_pc EXCEPT !.engine = "idle"]
    /\ UNCHANGED <<linevars, evq, monitor_thread, mon_i, revents, wake, cancel>>

\* ast_lantiq_write returned; the engine unlocks the leg
EngineWritten ==
    /\ th_pc.engine = "write"
    /\ lk' = [lk EXCEPT !.chan = "free"]
    /\ th_pc' = [th_pc EXCEPT !.engine = "idle"]
    /\ UNCHANGED <<linevars, evq, monitor_thread, mon_i, revents, wake, cancel>>

\* unload_module is called: ast_channel_unregister, then it is about to
\* take iflock
UnloadStart ==
    /\ th_pc.unload = "idle"
    /\ th_pc' = [th_pc EXCEPT !.unload = "iflock"]
    /\ UNCHANGED <<linevars, evq, monitor_thread, lk, mon_i, revents, wake, cancel>>

\* ast_mutex_lock(&iflock); with an owner, ast_softhangup is next
UnloadIflock ==
    /\ th_pc.unload = "iflock"
    /\ lk.iflock = "free"
    /\ IF LegInUse
       THEN /\ lk' = [lk EXCEPT !.iflock = "unload"]
            /\ th_pc' = [th_pc EXCEPT !.unload = "softhangup"]
       ELSE /\ lk' = unload_unlock_iflock([lk EXCEPT !.iflock = "unload"])
            /\ th_pc' = [th_pc EXCEPT !.unload = "monlock"]
    /\ UNCHANGED <<linevars, evq, monitor_thread, mon_i, revents, wake, cancel>>

\* ast_softhangup got the lock of the owner; the loop ends, iflock is
\* released
UnloadSoftHangup ==
    /\ th_pc.unload = "softhangup"
    /\ lk.chan = "free"
    /\ lk' = unload_unlock_iflock(lk)
    /\ th_pc' = [th_pc EXCEPT !.unload = "monlock"]
    /\ UNCHANGED <<linevars, evq, monitor_thread, mon_i, revents, wake, cancel>>

\* ast_mutex_lock(&monlock); STOP; with a thread: pthread_cancel,
\* pthread_kill, unlock and on to pthread_join
UnloadMonlock ==
    /\ th_pc.unload = "monlock"
    /\ lk.monlock = "free"
    /\ monitor_thread' = "STOP"
    /\ IF monitor_thread = "RUNNING"
       THEN /\ cancel' = TRUE
            /\ th_pc' = [th_pc EXCEPT !.unload = "join"]
       ELSE /\ cancel' = cancel
            /\ th_pc' = [th_pc EXCEPT !.unload = "returned"]
    /\ UNCHANGED <<linevars, evq, lk, mon_i, revents, wake>>

\* pthread_join returned; the rest of unload_module takes no lock of the
\* model
UnloadJoin ==
    /\ th_pc.unload = "join"
    /\ th_pc.monitor = "dead"
    /\ th_pc' = [th_pc EXCEPT !.unload = "returned"]
    /\ UNCHANGED <<linevars, evq, monitor_thread, lk, mon_i, revents, wake, cancel>>

MonitorStep ==
    \/ MonLock
    \/ \E kind \in FetchKinds : MonFetch(kind)
    \/ MonDispatch
    \/ MonLeg
    \/ \E res \in ReadResults : MonData(res)
    \/ MonUnlock

EngineStep == EngineIflock \/ EngineWritten

UnloadStep == UnloadIflock \/ UnloadSoftHangup \/ UnloadMonlock \/ UnloadJoin

NextMonitor ==
    \/ RestartMonitor
    \/ \E ready \in SUBSET PollFds : MonPoll(ready)
    \/ MonitorStep
    \/ MonCancelled
    \/ \E op \in {"write", "iflock"} : EngineEnter(op)
    \/ EngineStep
    \/ UnloadStart
    \/ UnloadStep
    \/ \E c \in MonitorPorts : HwEvent(c)

\* load_module about to call restart_monitor (line 2007), port 0 in a call
\* on leg 1
InitMonitor ==
    /\ InitWriteLine
    /\ codec[0] = "ULAW"
    /\ rtp_seqno[0] = 0
    /\ rtp_timestamp[0] = 0
    /\ MonitorAtRest("NULL", "none")

SpecMonitor == InitMonitor /\ [][NextMonitor]_vars

\* every thread that can take its next step takes it in the end, a thread
\* that waits for a lock gets it if the lock keeps coming free, and a
\* pending cancellation is acted upon; poll may wait for ever, and nobody
\* has to start an operation
FairMonitor ==
    /\ SF_vars(MonitorStep)
    /\ WF_vars(MonCancelled)
    /\ SF_vars(EngineStep)
    /\ SF_vars(UnloadStep)

SpecMonitorFair == InitMonitor /\ [][NextMonitor]_vars /\ FairMonitor

(***************************************************************************)
(* Properties of the dispatcher loop and its life cycle (SpecMonitor).     *)
(***************************************************************************)
\* C24: a failed media read or a failed event fetch on one port keeps no
\* other port from being served in the same wake: when the monitor reaches
\* the end of a wake, the event fetch was made for every port if the device
\* descriptor was ready, and the data handler was called for every port
\* whose descriptor was ready; and the thread leaves its loop only by the
\* cancellation of unload_module.
C24_FailureContained ==
    /\ th_pc.monitor = "unlock"
         => /\ 0 \in revents => \A c \in MonitorPorts : <<"event", c>> \in wake.tried
            /\ \A c \in MonitorPorts :
                  (c + 1) \in revents => <<"data", c>> \in wake.tried
    /\ th_pc.monitor = "dead" => monitor_thread = "STOP"

\* a wake in which the fetch and the read failed for port 0 and port 1 got
\* its event dispatched and its packet handled
C24_Witness ==
    /\ th_pc.monitor = "unlock"
    /\ <<"event", 0>> \in wake.failed
    /\ <<"data", 0>> \in wake.failed
    /\ <<"event", 1>> \in wake.served
    /\ <<"data", 1>> \in wake.served

\* C25: once unload_module is called the monitor thread terminates in the
\* end; after unload_module has returned nothing is fetched, dispatched or
\* read any more; and once monitor_thread is STOP it stays STOP and no
\* thread is started.
C25_ShutdownStopsDispatcher ==
    /\ (th_pc.unload # "idle") ~> (th_pc.monitor \in {"none", "dead"})
    /\ [][th_pc.unload = "returned" => wake'.tried \subseteq wake.tried]_vars
    /\ [][monitor_thread = "STOP"
            => /\ monitor_thread' = "STOP"
               /\ th_pc.monitor \in {"none", "dead"} => th_pc'.monitor = th_pc.monitor]_vars

C33_WakeDrainsEvents ==
    (th_pc.monitor = "unlock" /\ 0 \in revents)
      => \A c \in MonitorPorts :
            wake.owed[c] = 0 \/ <<"event", c>> \in wake.failed

(***************************************************************************)
(* Properties of a port that meets more than one leg (SpecLegs).           *)
(***************************************************************************)
\* C31: an off-hook event handled for a port in RINGING, with the
\* line-feed activation succeeding, moves the port to INCALL, queues the
\* answer to the owning leg exactly once and records the call-start and
\* answer times: the port is not left in RINGING with the handset off.
C31_OffHookAnswersRinging ==
    \A c \in Ports :
       (mon_pc = "idle" /\ hook[c] = "on" /\ channel_state[c] = RINGING)
         => LET S == lantiq_dev_event_hook(OnDispatcher(Cur), c, 0, TRUE, 0)
            IN  /\ S.channel_state[c] = INCALL
                /\ Cardinality(Calls(S, "queue_control_answer")) = 1
                /\ Cardinality(Calls(S, "call_start")) = 1
                /\ Cardinality(Calls(S, "call_answer")) = 1

\* C38: a port's owner, when there is one, is a leg that has not been hung
\* up and whose tech_pvt is the port; the hangup of a leg that is not the
\* port's owner leaves the port's owner and state as they are; and a
\* channel request never replaces an owner that is a live leg.
C38_OwnerIsLiveLeg ==
    /\ \A c \in Ports :
          owner[c] # NULL => chan[owner[c]].alive /\ chan[owner[c]].tech_pvt = c
    /\ \A l \in Legs :
          (Alive /\ EngineLeg(l) /\ owner[chan[l].tech_pvt] # l)
            => LET c == chan[l].tech_pvt
                   S == ast_hangup(OnEngine(Cur, l), l)
               IN  /\ S.owner[c] = owner[c]
                   /\ S.channel_state[c] = channel_state[c]
    /\ \A r \in Requests, c \in Ports :
          (Alive /\ owner[c] # NULL /\ chan[owner[c]].alive)
            => ast_lantiq_requester(Cur, r[1], r[2], r[3]).owner[c] = owner[c]

=============================================================================
